---- MODULE Spec2Model ----
(***************************************************************************)
(* rockboards-api: the NAV calculator (calculateCurrentNAV and             *)
(* calculateCurrentMnav) and the mNAV alert monitor (the route's           *)
(* checkMnavThresholds and MnavMonitorService), with the user-facing alert *)
(* update and the delivery endpoints that share the monitor's tables; the   *)
(* metric series filler (postFillMetrics); the background price update of  *)
(* the stock-prices route; the Finnhub and Finazon websocket services      *)
(* (debounced price writes, reconnect and stop); and the alert quota of    *)
(* POST and PATCH /mnav-alerts.                                            *)
(*                                                                         *)
(* Numbers are JavaScript numbers: finite values are exact rationals       *)
(* n/d in lowest terms, and Infinity, -Infinity, NaN and undefined are     *)
(* values of their own, so that a division by zero or a falsy check does   *)
(* what the code does.  Time is counted in hours.                          *)
(***************************************************************************)
EXTENDS Integers, Sequences, FiniteSets, TLC

VARIABLES
    navEnv,         \* what one calculateCurrentNAV call reads: arguments, gateway, store
    navResult,      \* what calculateCurrentNAV returned (NavMetric | null)
    mnavResult,     \* what calculateCurrentMnav returned (number | null)
    navPc,          \* "ready" before the call, "nav" / "mnav" after it
    fillMetrics,    \* what one postFillMetrics call is given: rows of company_metrics,
    fillPrices,     \* rows of stock_prices
    fillNow,        \* and the time of the call
    fillRows,       \* what postFillMetrics returned
    fillPc,         \* "ready" before the call, "filled" after it
    clock,          \* Date.now(), in hours
    alerts,         \* table mnav_threshold_alerts: alert id -> row
    notifications,  \* table mnav_notifications: set of rows
    deliveryLog,    \* table notification_delivery_log: set of rows
    inv,            \* monitor invocations in flight: invocation id -> frame
    runsLeft,       \* monitor invocations that may still start
    ticksLeft,      \* instants that may still pass
    requestsLeft,   \* user and delivery requests that may still be served
    isUpdateRunning,  \* stock-prices route: an update is already running
    updateStartTime,  \* when it started (null without one)
    updateTickers,    \* the tickers it updates
    updateReqs,       \* GET /update requests: request id -> where the handler is
    updateRuns,       \* processTickerUpdates calls: request id -> tickers and progress
    priceNow,         \* Finnhub service: Date.now(), in units of 5 seconds
    lastUpdateTime,   \* ticker -> time of its last flush (absent: 0)
    pendingPrices,    \* ticker -> price not yet written (absent: undefined)
    flushInterval,    \* the time the periodic flush fires next
    flushing,         \* flushAllPendingPrices in progress: the tickers still to flush
    upserts,          \* ticker -> the upserts into realtime_stock_prices, oldest first
    received,         \* ticker -> the price of the last trade received
    tradesLeft,       \* trade messages that may still arrive
    ws,               \* per websocket service: the module's ws ("null" or "socket")
    readyState,       \* the state of the socket it created last
    reconnectAttempts,  \* reconnect attempts since the last open
    reconnectTimers,  \* setTimeout(connect) calls that have not fired
    intervalSet,      \* flushInterval / heartbeatInterval is set
    stopped,          \* stopFinnhubWebSocket / stopFinazonWebSocket has been called
    userAlerts,       \* one user's rows of mnav_threshold_alerts for one company
    alertPosts,       \* POST /mnav-alerts requests: request id -> where the handler is
    patchesLeft       \* PATCH /mnav-alerts/:id requests that may still be served

updateVars == <<isUpdateRunning, updateStartTime, updateTickers, updateReqs, updateRuns>>
priceVars ==
    <<priceNow, lastUpdateTime, pendingPrices, flushInterval, flushing, upserts, received,
      tradesLeft>>
socketVars == <<ws, readyState, reconnectAttempts, reconnectTimers, intervalSet, stopped>>
quotaVars == <<userAlerts, alertPosts, patchesLeft>>
serviceVars == <<updateVars, priceVars, socketVars, quotaVars>>

vars ==
    <<navEnv, navResult, mnavResult, navPc, fillMetrics, fillPrices, fillNow, fillRows,
      fillPc, clock, alerts, notifications, deliveryLog, inv, runsLeft, ticksLeft,
      requestsLeft, serviceVars>>

fillVars == <<fillMetrics, fillPrices, fillNow, fillRows, fillPc>>
navVars == <<navEnv, navResult, mnavResult, navPc, fillVars>>
monitorVars ==
    <<clock, alerts, notifications, deliveryLog, inv, runsLeft, ticksLeft, requestsLeft>>

(***************************************************************************)
(* JavaScript numbers                                                      *)
(***************************************************************************)
Abs(x) == IF x < 0 THEN -x ELSE x

Min(S) == CHOOSE x \in S : \A y \in S : x <= y

RECURSIVE GCD(_, _)
GCD(a, b) == IF b = 0 THEN a ELSE GCD(b, a % b)

\* the finite number n/d (d # 0), in lowest terms with a positive denominator
Num(n, d) ==
    LET g == GCD(Abs(n), Abs(d))
        s == IF d < 0 THEN -1 ELSE 1
    IN  [k |-> "num", n |-> (s * n) \div g, d |-> (s * d) \div g]

Whole(n) == Num(n, 1)
Infinity == [k |-> "inf", n |-> 1, d |-> 0]
NegInfinity == [k |-> "inf", n |-> -1, d |-> 0]
NaN == [k |-> "nan", n |-> 0, d |-> 0]
Undefined == [k |-> "undefined", n |-> 0, d |-> 0]
Null == [k |-> "null", n |-> 0, d |-> 0]

IsFinite(a) == a.k = "num"
IsNumber(a) == a.k \in {"num", "inf"}
Sign(a) == IF a.n > 0 THEN 1 ELSE IF a.n < 0 THEN -1 ELSE 0
SignedInf(s) == IF s < 0 THEN NegInfinity ELSE Infinity

\* a value is truthy unless it is 0, NaN, undefined or null
Truthy(a) == a.k = "inf" \/ (a.k = "num" /\ a.n # 0)

\* a || b
JsOr(a, b) == IF Truthy(a) THEN a ELSE b

\* ToNumber: null is 0, undefined is NaN
ToNumber(a) == IF a.k = "null" THEN Whole(0) ELSE IF a.k = "undefined" THEN NaN ELSE a

\* a * b
JsMul(x, y) ==
    LET a == ToNumber(x)
        b == ToNumber(y)
    IN  IF ~IsNumber(a) \/ ~IsNumber(b) THEN NaN
        ELSE IF a.k = "inf" \/ b.k = "inf"
             THEN IF Sign(a) * Sign(b) = 0 THEN NaN ELSE SignedInf(Sign(a) * Sign(b))
             ELSE Num(a.n * b.n, a.d * b.d)

\* a + b
JsAdd(x, y) ==
    LET a == ToNumber(x)
        b == ToNumber(y)
    IN  IF ~IsNumber(a) \/ ~IsNumber(b) THEN NaN
        ELSE IF a.k = "inf" /\ b.k = "inf" THEN (IF a.n = b.n THEN a ELSE NaN)
        ELSE IF a.k = "inf" THEN a
        ELSE IF b.k = "inf" THEN b
        ELSE Num(a.n * b.d + b.n * a.d, a.d * b.d)

\* a / b (a zero divisor is +0)
JsDiv(x, y) ==
    LET a == ToNumber(x)
        b == ToNumber(y)
    IN  IF ~IsNumber(a) \/ ~IsNumber(b) THEN NaN
        ELSE IF a.k = "inf"
             THEN IF b.k = "inf" THEN NaN
                  ELSE SignedInf(Sign(a) * (IF Sign(b) < 0 THEN -1 ELSE 1))
        ELSE IF b.k = "inf" THEN Whole(0)
        ELSE IF b.n = 0
             THEN IF a.n = 0 THEN NaN ELSE SignedInf(Sign(a))
        ELSE Num(a.n * b.d, a.d * b.n)

\* a < b.  A comparison with NaN or undefined is false.
JsLt(x, y) ==
    LET a == ToNumber(x)
        b == ToNumber(y)
    IN  /\ IsNumber(a)
        /\ IsNumber(b)
        /\ IF a.k = "inf" /\ b.k = "inf" THEN a.n < b.n
           ELSE IF a.k = "inf" THEN a.n < 0
           ELSE IF b.k = "inf" THEN b.n > 0
           ELSE a.n * b.d < b.n * a.d

\* a > b
JsGt(x, y) == JsLt(y, x)

\* a <= b
JsLe(x, y) == JsLt(x, y) \/ (IsNumber(ToNumber(x)) /\ ToNumber(x) = ToNumber(y))

(***************************************************************************)
(* NavCalculator                                                           *)
(***************************************************************************)
NullNav ==
    [isNull |-> TRUE, navPerShare |-> Null, stockPrice |-> Null, ethPrice |-> Null,
     mNav |-> Null, totalNavValue |-> Null]

\* !ethPrice || !stockPrice
MissingPriceData(ethPrice, stockPrice) == ~Truthy(ethPrice) \/ ~Truthy(stockPrice)

MissingMetricData_FalsyCash(latestMetric) ==
    \/ ~Truthy(latestMetric.ethHoldings)
    \/ ~Truthy(latestMetric.sharesOutstanding)
    \/ ~Truthy(latestMetric.usdHoldings)

\* !ethHoldings || !sharesOutstanding || usdHoldings === undefined
MissingMetricData(latestMetric) ==
    \/ ~Truthy(latestMetric.ethHoldings)
    \/ ~Truthy(latestMetric.sharesOutstanding)
    \/ latestMetric.usdHoldings = Undefined

NavArithmetic_NoOtherAssets(ethHoldings, sharesOutstanding, usdHoldings, ethPrice, stockPrice, alternativeAssetsValue) ==
    LET ethMarketValue == JsMul(ethHoldings, ethPrice)
        totalNavValue == JsAdd(ethMarketValue, usdHoldings)
        navPerShare == JsDiv(totalNavValue, sharesOutstanding)
        marketCap == JsMul(stockPrice, sharesOutstanding)
        mNav == JsDiv(marketCap, totalNavValue)
    IN  [isNull |-> FALSE, navPerShare |-> navPerShare, stockPrice |-> stockPrice,
         ethPrice |-> ethPrice, mNav |-> mNav, totalNavValue |-> totalNavValue]

\* the arithmetic of calculateCurrentNAV and the NavMetric it returns
NavArithmetic(ethHoldings, sharesOutstanding, usdHoldings, ethPrice, stockPrice, alternativeAssetsValue) ==
    LET ethMarketValue == JsMul(ethHoldings, ethPrice)
        totalNavValue == JsAdd(JsAdd(ethMarketValue, usdHoldings), alternativeAssetsValue)
        navPerShare == JsDiv(totalNavValue, sharesOutstanding)
        marketCap == JsMul(stockPrice, sharesOutstanding)
        mNav == JsDiv(marketCap, totalNavValue)
    IN  [isNull |-> FALSE, navPerShare |-> navPerShare, stockPrice |-> stockPrice,
         ethPrice |-> ethPrice, mNav |-> mNav, totalNavValue |-> totalNavValue]

\* calculateCurrentNAV(companyId, currentStockPrice?, currentEthPrice?).  e is what
\* the call reads: its two optional arguments, the prices getCurrentEthPrice and
\* getCurrentBmnrPrice return (0 when they fail), the number of rows of
\* company_metrics and stock_prices, the output of postFillMetrics and the value
\* getAlternativeAssetsValue returns.
calculateCurrentNAV(e) ==
    LET ethPrice == JsOr(e.currentEthPrice, e.gatewayEthPrice)
        stockPrice == JsOr(e.currentStockPrice, e.gatewayStockPrice)
    IN  IF MissingPriceData(ethPrice, stockPrice) THEN NullNav
        ELSE IF e.allMetricsLength = 0 \/ e.allStockPricesLength = 0 THEN NullNav
        ELSE IF Len(e.processedMetrics) = 0 THEN NullNav
        ELSE
          LET latestMetric == e.processedMetrics[Len(e.processedMetrics)]
          IN  IF MissingMetricData(latestMetric) THEN NullNav
              ELSE NavArithmetic(latestMetric.ethHoldings, latestMetric.sharesOutstanding,
                                 latestMetric.usdHoldings, ethPrice, stockPrice,
                                 e.alternativeAssetsValue)

\* navResult?.mNav || null
MnavOrNull(navResultOfCall) ==
    IF navResultOfCall.isNull THEN Null ELSE JsOr(navResultOfCall.mNav, Null)

\* the environment of the call calculateCurrentNAV(companyId): no price arguments
NoPriceArguments(e) ==
    [e EXCEPT !.currentStockPrice = Undefined, !.currentEthPrice = Undefined]

\* calculateCurrentMnav(companyId)
calculateCurrentMnav(e) == MnavOrNull(calculateCurrentNAV(NoPriceArguments(e)))

(***************************************************************************)
(* The inputs of one NAV computation                                       *)
(***************************************************************************)
\* a row of postFillMetrics' output, as far as calculateCurrentNAV reads it
CompanyMetric(ethHoldings, sharesOutstanding, usdHoldings) ==
    [ethHoldings |-> ethHoldings, sharesOutstanding |-> sharesOutstanding,
     usdHoldings |-> usdHoldings]

NavEthHoldings == {Undefined, Whole(0), Whole(1), Whole(1000)}
NavSharesOutstanding == {Undefined, Whole(0), Whole(2), Whole(10000), Infinity, NaN}
NavUsdHoldings == {Undefined, Whole(0), Whole(-1), Whole(-5000), Whole(500000)}
NavGatewayEthPrices == {Whole(0), Whole(1), Whole(2000)}
NavGatewayStockPrices == {Whole(0), Whole(3), Whole(250)}
NavPriceArguments == {Undefined, Whole(2)}
NavOtherAssets == {Whole(0), Whole(7)}

NavLatestMetrics ==
    {CompanyMetric(h, s, u) : h \in NavEthHoldings, s \in NavSharesOutstanding,
                              u \in NavUsdHoldings}

\* an earlier row of the series, which the computation must not read
EarlierMetric == CompanyMetric(Whole(5), Whole(5), Whole(5))

NavProcessedMetrics ==
    {<<>>} \cup {<<m>> : m \in NavLatestMetrics}
           \cup {<<EarlierMetric, m>> : m \in NavLatestMetrics}

NavEnvs ==
    [currentStockPrice : NavPriceArguments, currentEthPrice : NavPriceArguments,
     gatewayEthPrice : NavGatewayEthPrices, gatewayStockPrice : NavGatewayStockPrices,
     allMetricsLength : {0, 1}, allStockPricesLength : {1},
     processedMetrics : NavProcessedMetrics, alternativeAssetsValue : NavOtherAssets]

(***************************************************************************)
(* MetricSeriesFiller: postFillMetrics                                     *)
(*                                                                         *)
(* A date is a day number (the ISO string of a UTC midnight); the time of  *)
(* a call is a day and whether the call comes after that day's midnight.   *)
(***************************************************************************)
\* a row of company_metrics, as far as postFillMetrics reads it
Disclosure(date, eth_holdings, eth_concentration, usd_holdings, avg_buy_price, staking_rewards) ==
    [date |-> date, company_id |-> "c1", eth_holdings |-> eth_holdings,
     eth_concentration |-> eth_concentration, usd_holdings |-> usd_holdings,
     avg_buy_price |-> avg_buy_price, staking_rewards |-> staking_rewards]

\* a row of stock_prices, as far as postFillMetrics reads it
StockPrice(date, close) == [date |-> date, close |-> close]

\* a - b
JsSub(x, y) == JsAdd(x, JsMul(Whole(0 - 1), y))

\* differenceInDays(new Date(), new Date(normalizedStartDate)): Math.ceil of the
\* time between the call and the midnight of the start date, in days
differenceInDays(now, startDay) == (now.day - startDay) + (IF now.afterMidnight THEN 1 ELSE 0)

\* the first two dates in the opposite order
FillDates_DisclosedFirst(now, startDay) ==
    LET length == differenceInDays(now, startDay) + 1
    IN  [i \in 1..(IF length > 0 THEN length ELSE 0) |->
            IF i = 1 THEN startDay + 1 ELSE IF i = 2 THEN startDay ELSE startDay + (i - 1)]

\* the dates the loop enumerates: Array.from({ length: differenceInDays + 1 })
FillDates(now, startDay) ==
    LET length == differenceInDays(now, startDay) + 1
    IN  [i \in 1..(IF length > 0 THEN length ELSE 0) |-> startDay + (i - 1)]

\* rows.find(r => r.date === date): the index of the first such row, 0 without one
FindDate(rows, date) ==
    LET at == {i \in 1..Len(rows) : rows[i].date = date}
    IN  IF at = {} THEN 0 ELSE Min(at)

\* rows.filter(r => r.date < date && keep(r)).sort((a, b) => b.date.localeCompare(a.date))[0]
\* with kept the indices of the rows that keep holds of: the index of the first of
\* the rows with the latest such date, 0 without one
LatestBefore(rows, date, kept) ==
    LET ok == {i \in kept : rows[i].date < date}
        best == {i \in ok : \A j \in ok : rows[j].date <= rows[i].date}
    IN  IF ok = {} THEN 0 ELSE Min(best)

getLastKnown_Earliest(metrics, date, field) ==
    LET known == {i \in 1..Len(metrics) : metrics[i].date <= date /\ Truthy(metrics[i][field])}
    IN  IF known = {} THEN Undefined ELSE metrics[Min(known)][field]

\* getLastKnownEthHoldings and its like for avg_buy_price, staking_rewards and
\* eth_concentration: the current day's value if truthy, else the most recent
\* earlier truthy one, else undefined
getLastKnown(metrics, date, field) ==
    LET cur == FindDate(metrics, date)
        prev == LatestBefore(metrics, date, {i \in 1..Len(metrics) : Truthy(metrics[i][field])})
    IN  IF cur # 0 /\ Truthy(metrics[cur][field]) THEN metrics[cur][field]
        ELSE IF prev # 0 THEN metrics[prev][field]
        ELSE Undefined

getLastKnownEthHoldings(metrics, date) == getLastKnown(metrics, date, "eth_holdings")
getLastKnownAvgBuyPrice(metrics, date) == getLastKnown(metrics, date, "avg_buy_price")
getLastKnownStakingRewards(metrics, date) == getLastKnown(metrics, date, "staking_rewards")
getLastKnownEthConcentration(metrics, date) == getLastKnown(metrics, date, "eth_concentration")

\* usdHoldingsExist(val)
usdHoldingsExist(val) == val # Undefined /\ val # Null

\* cash resolved like the other fields: a disclosed 0 counts as absent
getLastKnownUsdHoldings_ZeroAbsent(metrics, date) ==
    LET cur == FindDate(metrics, date)
        prev == LatestBefore(metrics, date,
                            {i \in 1..Len(metrics) : Truthy(metrics[i].usd_holdings)})
    IN  IF cur # 0 /\ Truthy(metrics[cur].usd_holdings)
        THEN JsMul(metrics[cur].usd_holdings, Whole(1000000))
        ELSE IF prev # 0
             THEN JsMul(metrics[prev].usd_holdings, Whole(1000000))
             ELSE Whole(0)

\* getLastKnownUsdHoldings: the current day's value if it exists (0 included), else
\* the most recent earlier one that exists, else 0; in USD
getLastKnownUsdHoldings(metrics, date) ==
    LET cur == FindDate(metrics, date)
        prev == LatestBefore(metrics, date,
                            {i \in 1..Len(metrics) : usdHoldingsExist(metrics[i].usd_holdings)})
    IN  IF cur # 0 /\ usdHoldingsExist(metrics[cur].usd_holdings)
        THEN JsMul(JsOr(metrics[cur].usd_holdings, Whole(0)), Whole(1000000))
        ELSE IF prev # 0
             THEN JsMul(JsOr(metrics[prev].usd_holdings, Whole(0)), Whole(1000000))
             ELSE Whole(0)

\* the earliest emitted row with shares instead of the latest
getLastKnownSharesOutstanding_Earliest(companyMetrics, date) ==
    LET ok == {i \in 1..Len(companyMetrics) :
                  /\ companyMetrics[i].date < date
                  /\ Truthy(companyMetrics[i].sharesOutstanding)}
    IN  IF ok # {} THEN companyMetrics[Min(ok)].sharesOutstanding ELSE Undefined

\* getLastKnownSharesOutstanding(companyMetrics, date), over the rows emitted so far
getLastKnownSharesOutstanding(companyMetrics, date) ==
    LET prev == LatestBefore(companyMetrics, date,
                             {i \in 1..Len(companyMetrics) :
                                 Truthy(companyMetrics[i].sharesOutstanding)})
    IN  IF prev # 0 THEN companyMetrics[prev].sharesOutstanding ELSE Undefined

\* getLastKnownSharesBoughtBack(companyMetrics, date)
getLastKnownSharesBoughtBack(companyMetrics, date) ==
    LET prev == LatestBefore(companyMetrics, date,
                             {i \in 1..Len(companyMetrics) :
                                 Truthy(companyMetrics[i].sharesBoughtBack)})
    IN  IF prev # 0 THEN companyMetrics[prev].sharesBoughtBack ELSE Undefined


hasAnyMetricData_OnTheDay(metrics, date) ==
    \E i \in 1..Len(metrics) :
        /\ metrics[i].date = date
        /\ \/ metrics[i].eth_holdings # Undefined
           \/ metrics[i].eth_concentration # Undefined
           \/ metrics[i].avg_buy_price # Undefined
           \/ metrics[i].usd_holdings # Undefined
           \/ metrics[i].staking_rewards # Undefined

\* hasAnyMetricData: some row on or before the date has a field that is not undefined
hasAnyMetricData(metrics, date) ==
    \E i \in 1..Len(metrics) :
        /\ metrics[i].date <= date
        /\ \/ metrics[i].eth_holdings # Undefined
           \/ metrics[i].eth_concentration # Undefined
           \/ metrics[i].avg_buy_price # Undefined
           \/ metrics[i].usd_holdings # Undefined
           \/ metrics[i].staking_rewards # Undefined

CarriedStockPrice_NoCarry(stockPriceAtClose, lastKnownStockPrice) == stockPriceAtClose

\* if (stockPriceAtClose) lastKnownStockPrice = stockPriceAtClose
CarriedStockPrice(stockPriceAtClose, lastKnownStockPrice) ==
    IF Truthy(stockPriceAtClose) THEN stockPriceAtClose ELSE lastKnownStockPrice

DerivedShares_PerCent(ethHoldings, ethConcentration) ==
    JsDiv(ethHoldings, JsDiv(ethConcentration, Whole(100)))

\* sharesOutstanding = ethHoldings / (ethConcentration / 1000)
DerivedShares(ethHoldings, ethConcentration) ==
    JsDiv(ethHoldings, JsDiv(ethConcentration, Whole(1000)))

\* the CompanyMetric the loop builds for a date that is not skipped
FilledMetric(metrics, companyMetrics, date, companyId, lastKnownStockPrice) ==
    LET lastKnownEthHoldings == getLastKnownEthHoldings(metrics, date)
        lastKnownUsdHoldings == getLastKnownUsdHoldings(metrics, date)
        lastKnownAvgBuyPrice == getLastKnownAvgBuyPrice(metrics, date)
        lastKnownStakingRewards == getLastKnownStakingRewards(metrics, date)
        lastKnownEthConcentration == getLastKnownEthConcentration(metrics, date)
        ethConcentration == JsOr(lastKnownEthConcentration, Whole(0))
        ethHoldings == JsOr(lastKnownEthHoldings, Whole(0))
        sharesOutstanding == DerivedShares(ethHoldings, ethConcentration)
        lastKnownSharesOutstanding == getLastKnownSharesOutstanding(companyMetrics, date)
        lastKnownSharesBoughtBack == getLastKnownSharesBoughtBack(companyMetrics, date)
        issuedAtmShares == IF Truthy(lastKnownSharesOutstanding)
                           THEN JsSub(sharesOutstanding, lastKnownSharesOutstanding)
                           ELSE sharesOutstanding
    IN  [companyId |-> companyId,
         date |-> date,
         weightedAvgBuyPrice |-> JsOr(lastKnownAvgBuyPrice, Whole(0)),
         ethHoldings |-> JsOr(lastKnownEthHoldings, Whole(0)),
         avgBuyPrice |-> JsOr(lastKnownAvgBuyPrice, Whole(0)),
         usdHoldings |-> JsOr(lastKnownUsdHoldings, Whole(0)),
         stakingRewards |-> JsOr(lastKnownStakingRewards, Whole(0)),
         sharesOutstanding |-> sharesOutstanding,
         marketCap |-> JsMul(lastKnownStockPrice, sharesOutstanding),
         ethConcentration |-> JsOr(lastKnownEthConcentration, Whole(0)),
         issuedAtmShares |-> issuedAtmShares,
         sharesBoughtBack |-> JsOr(lastKnownSharesBoughtBack, Whole(0))]

\* one pass of the loop over the dates: the rows emitted so far and the last known
\* stock price after the date
FillDay(metrics, stockPrices, date, loop) ==
    LET p == FindDate(stockPrices, date)
        stockPriceAtClose == IF p = 0 THEN Undefined ELSE stockPrices[p].close
        lastKnownStockPrice == CarriedStockPrice(stockPriceAtClose, loop.lastKnownStockPrice)
        o == FindDate(metrics, date)
        companyId == IF o # 0 /\ metrics[o].company_id # "" THEN metrics[o].company_id
                     ELSE IF Len(metrics) > 0 THEN metrics[1].company_id
                     ELSE ""
        loop1 == [loop EXCEPT !.lastKnownStockPrice = lastKnownStockPrice]
    IN  IF ~Truthy(lastKnownStockPrice) THEN loop1
        ELSE IF ~hasAnyMetricData(metrics, date) THEN loop1
        ELSE IF companyId = "" THEN loop1
        ELSE [loop1 EXCEPT !.companyMetrics =
                 Append(@, FilledMetric(metrics, @, date, companyId, lastKnownStockPrice))]

RECURSIVE FillLoop(_, _, _, _, _)
\* for (const date of dates), from the i-th date on
FillLoop(metrics, stockPrices, dates, i, loop) ==
    IF i > Len(dates) THEN loop
    ELSE FillLoop(metrics, stockPrices, dates, i + 1,
                  FillDay(metrics, stockPrices, dates[i], loop))

\* postFillMetrics(metrics, stockPrices, startDate), called at time now
postFillMetrics(metrics, stockPrices, startDay, now) ==
    FillLoop(metrics, stockPrices, FillDates(now, startDay), 1,
             [lastKnownStockPrice |-> Undefined, companyMetrics |-> <<>>]).companyMetrics

(* ---- the inputs of one postFillMetrics call ------------------------------ *)
\* startDate = "2025-06-12", as day 1
StartDay == 1
\* the day of the call
FillToday == 5

\* GET /update requests that arrive
MaxUpdateRequests == 3

\* the rules a user starts with, and the POST and PATCH requests of the user
InitialRules == 4
MaxAlertPosts == 2
MaxAlertPatches == 2

\* trade messages that arrive, and the units of 5 seconds that pass
MaxTrades == 4
MaxPriceTicks == 4

\* the days that may have a row of company_metrics (day 0 is before the start date)
\* and the days that may have a row of stock_prices
DisclosureDays == <<0, 1, 5>>
PriceDays == <<0, 1, 4>>

FillEthHoldings == {Undefined, Whole(0), Whole(100), Whole(150)}
FillEthConcentrations == {Undefined, Whole(0), Whole(500)}
FillUsdHoldings == {Undefined, Whole(2)}

\* what a day discloses: no row, or a row with holdings and concentration in any
\* combination, or a row with cash alone
NoRow == [row |-> FALSE, eth_holdings |-> Undefined, eth_concentration |-> Undefined,
          usd_holdings |-> Undefined]

DisclosureChoices ==
    {NoRow} \cup
    {c \in [row : {TRUE}, eth_holdings : FillEthHoldings,
            eth_concentration : FillEthConcentrations, usd_holdings : FillUsdHoldings] :
        c.usd_holdings # Undefined
            => (c.eth_holdings = Undefined /\ c.eth_concentration = Undefined)}

\* what a day may disclose: before the start date no row, or a row with the first
\* non-zero values
DisclosureChoicesOn(day) ==
    IF day >= StartDay THEN DisclosureChoices
    ELSE {NoRow} \cup
         {c \in DisclosureChoices :
             /\ c.row
             /\ c.eth_holdings \in {Undefined, Whole(100)}
             /\ c.eth_concentration \in {Undefined, Whole(500)}
             /\ {c.eth_holdings, c.eth_concentration, c.usd_holdings} # {Undefined}}

\* a day's price row, if it has one: its close is the day's own price or, from the
\* start date on, 0
NoPrice == [row |-> FALSE, close |-> Undefined]
PriceChoices(day) ==
    {NoPrice, [row |-> TRUE, close |-> Whole(day + 2)]}
        \cup (IF day >= StartDay THEN {[row |-> TRUE, close |-> Whole(0)]} ELSE {})

RECURSIVE MetricsRows(_, _)
\* the rows of company_metrics in ascending date order, as getAllCompanyMetrics
\* returns them
MetricsRows(choice, i) ==
    IF i > Len(DisclosureDays) THEN <<>>
    ELSE (IF choice[i].row
          THEN <<Disclosure(DisclosureDays[i], choice[i].eth_holdings,
                            choice[i].eth_concentration, choice[i].usd_holdings,
                            Undefined, Undefined)>>
          ELSE <<>>) \o MetricsRows(choice, i + 1)

RECURSIVE PriceRows(_, _)
\* the rows of stock_prices in ascending date order, as getStockPrices returns them
PriceRows(choice, i) ==
    IF i > Len(PriceDays) THEN <<>>
    ELSE (IF choice[i].row THEN <<StockPrice(PriceDays[i], choice[i].close)>> ELSE <<>>)
         \o PriceRows(choice, i + 1)

FillMetricsInputs ==
    {MetricsRows(choice, 1) :
        choice \in {c \in [1..Len(DisclosureDays) -> DisclosureChoices] :
                       \A i \in 1..Len(DisclosureDays) :
                           c[i] \in DisclosureChoicesOn(DisclosureDays[i])}}

FillPricesInputs ==
    {PriceRows(choice, 1) :
        choice \in {c \in [1..Len(PriceDays) -> UNION {PriceChoices(PriceDays[i]) : i \in 1..Len(PriceDays)}] :
                       \A i \in 1..Len(PriceDays) : c[i] \in PriceChoices(PriceDays[i])}}

FillNows == [day : {FillToday}, afterMidnight : BOOLEAN]

\* postFillMetrics(metrics, stockPrices, startDate) as an operation of its own
CallPostFillMetrics ==
    /\ fillPc = "ready"
    /\ fillRows' = postFillMetrics(fillMetrics, fillPrices, StartDay, fillNow)
    /\ fillPc' = "filled"
    /\ UNCHANGED <<fillMetrics, fillPrices, fillNow, navEnv, navResult, mnavResult, navPc,
                   monitorVars, serviceVars>>

(***************************************************************************)
(* AlertMonitor: the tables and the three monitor implementations          *)
(***************************************************************************)
\* Spec: monitor invocations that follow one another
MaxRuns == 2        \* monitor invocations started in one behaviour
MaxTicks == 3       \* instants after hour 0: hours 1, 6, 7, 12, 13, ...
\* SpecRace: monitor invocations that overlap, on one active alert
RaceRuns == 2
RaceTicks == 2
\* SpecOwner: a monitor invocation among user and delivery requests
OwnerBudget == 2    \* invocations and requests of one behaviour, together

COOLDOWN_HOURS == 6     \* MnavMonitorService.COOLDOWN_HOURS
SIX_HOURS == 6          \* checkCooldownPeriod: 6 * 60 * 60 * 1000 ms

AlertIds == {"a1", "a2"}
Companies == {"c1", "c2"}
InvIds == {1, 2}
AlertTypes == {"above", "below"}
\* "route": checkMnavThresholds; "service": MnavMonitorService.checkAllAlerts;
\* "external": MnavMonitorService.checkAlertsForExternalEmail
Impls == {"route", "service", "external"}
\* the threshold_value a PATCH may carry
PatchThresholds == {Whole(2)}

\* the order in which the store returns alert rows
AlertOrder == <<"a1", "a2">>

(* ---- the rule's decision ---------------------------------------------- *)
checkAlertCondition_NonStrict(currentMnav, threshold, alertType) ==
    IF alertType = "above" THEN JsLe(threshold, currentMnav)
    ELSE IF alertType = "below" THEN JsLe(currentMnav, threshold)
    ELSE FALSE

\* checkAlertCondition(currentMnav, threshold, alertType)
checkAlertCondition(currentMnav, threshold, alertType) ==
    IF alertType = "above" THEN JsGt(currentMnav, threshold)
    ELSE IF alertType = "below" THEN JsLt(currentMnav, threshold)
    ELSE FALSE

checkCooldownPeriod_Always(lastTriggered, now) == TRUE

\* checkCooldownPeriod(lastTriggered), called at time now:
\* lastTriggeredDate < sixHoursAgo
checkCooldownPeriod(lastTriggered, now) ==
    IF lastTriggered = Null THEN TRUE
    ELSE JsLt(lastTriggered, Whole(now - SIX_HOURS))

shouldTriggerAlert_NeverRearms(alert, currentMnav, now) ==
    IF alert.last_triggered_at # Null
    THEN FALSE
    ELSE IF alert.alert_type = "below" THEN JsLt(currentMnav, alert.threshold_value)
    ELSE IF alert.alert_type = "above" THEN JsGt(currentMnav, alert.threshold_value)
    ELSE FALSE

\* MnavMonitorService.shouldTriggerAlert(alert, currentMnav), called at time now
shouldTriggerAlert(alert, currentMnav, now) ==
    IF /\ alert.last_triggered_at # Null
       /\ JsLt(Whole(now), JsAdd(alert.last_triggered_at, Whole(COOLDOWN_HOURS)))
    THEN FALSE
    ELSE IF alert.alert_type = "below" THEN JsLt(currentMnav, alert.threshold_value)
    ELSE IF alert.alert_type = "above" THEN JsGt(currentMnav, alert.threshold_value)
    ELSE FALSE

\* the condition under which an implementation goes on to create the notification
ShouldFire(impl, alert, currentMnav, now) ==
    IF impl = "route"
    THEN /\ checkAlertCondition(currentMnav, alert.threshold_value, alert.alert_type)
         /\ checkCooldownPeriod(alert.last_triggered_at, now)
    ELSE shouldTriggerAlert(alert, currentMnav, now)

(* ---- the mNAV of a company group -------------------------------------- *)
\* MnavMonitorService.calculateCurrentMnav(companyId).  e is what the call reads:
\* the number of rows of company_metrics and stock_prices, the latest row of each
\* and the price getCurrentEthPrice returns (null without a quote).
serviceCalculateCurrentMnav(e) ==
    IF e.metricsLength = 0 THEN Null
    ELSE IF e.stockPricesLength = 0 THEN Null
    ELSE IF ~Truthy(e.currentEthPrice) THEN Null
    ELSE IF ~Truthy(e.close) THEN Null
    ELSE
      LET marketCap == JsMul(JsOr(e.shares_outstanding, Whole(0)), e.close)
          totalNavValue ==
              JsAdd(JsMul(JsOr(e.eth_holdings, Whole(0)), e.currentEthPrice),
                    JsOr(e.usd_holdings, Whole(0)))
      IN  IF JsLe(totalNavValue, Whole(0)) THEN Null
          ELSE JsDiv(marketCap, totalNavValue)

\* what the store and the price gateway may hold when a group's mNAV is computed
MonitorStockPrices == {Whole(0), Whole(1), Whole(2), Whole(3)}

MonitorEnvs ==
    [currentStockPrice : {Undefined}, currentEthPrice : {Undefined},
     gatewayEthPrice : {Whole(2)}, gatewayStockPrice : MonitorStockPrices,
     allMetricsLength : {1}, allStockPricesLength : {1},
     processedMetrics : {<<>>, <<CompanyMetric(Whole(1), Whole(1), Whole(0))>>},
     alternativeAssetsValue : {Whole(0)}]

MonitorServiceEnvs ==
    [metricsLength : {0, 1}, stockPricesLength : {1}, currentEthPrice : {Whole(2)},
     close : MonitorStockPrices, shares_outstanding : {Whole(1)},
     eth_holdings : {Whole(1)}, usd_holdings : {Whole(0)}]

\* the values calculateCurrentMnav can return to an implementation
MnavValues(impl) ==
    IF impl = "route" THEN {calculateCurrentMnav(e) : e \in MonitorEnvs}
    ELSE {serviceCalculateCurrentMnav(e) : e \in MonitorServiceEnvs}

(* ---- an invocation's frame -------------------------------------------- *)
\* What an invocation did with an alert: "none" (not reached), "quiet" (evaluated,
\* did not fire), "firing" (insert pending), "insertFailed", "created" (notification
\* inserted, update pending), "written" (last_triggered_at updated), "updateFailed".
Outcomes == {"none", "quiet", "firing", "insertFailed", "created", "written", "updateFailed"}

NotYet == 0 - 1

IdleFrame ==
    [pc |-> "idle", impl |-> "route", run |-> 0, loaded |-> <<>>, g |-> 0, k |-> 0,
     currentMnav |-> Undefined,
     groupMnav |-> [c \in Companies |-> Undefined],
     outcome |-> [a \in AlertIds |-> "none"],
     evalAt |-> [a \in AlertIds |-> NotYet],
     reported |-> {}, results |-> <<>>]

RECURSIVE SelectSeq2(_, _)
\* the rows of s whose is_active flag is set, in order
SelectSeq2(s, tbl) ==
    IF s = <<>> THEN <<>>
    ELSE IF tbl[Head(s)].is_active
         THEN <<[id |-> Head(s),
                 company_id |-> tbl[Head(s)].company_id,
                 threshold_value |-> tbl[Head(s)].threshold_value,
                 alert_type |-> tbl[Head(s)].alert_type,
                 last_triggered_at |-> tbl[Head(s)].last_triggered_at]>>
              \o SelectSeq2(Tail(s), tbl)
         ELSE SelectSeq2(Tail(s), tbl)

ActiveAlerts_AllRows(tbl) ==
    [k \in 1..Len(AlertOrder) |->
        [id |-> AlertOrder[k],
         company_id |-> tbl[AlertOrder[k]].company_id,
         threshold_value |-> tbl[AlertOrder[k]].threshold_value,
         alert_type |-> tbl[AlertOrder[k]].alert_type,
         last_triggered_at |-> tbl[AlertOrder[k]].last_triggered_at]]

\* getActiveAlerts / select from active_mnav_alerts: the active rows
ActiveAlerts(tbl) == SelectSeq2(AlertOrder, tbl)

RECURSIVE GroupKeys(_, _)
GroupKeys(rows, seen) ==
    IF rows = <<>> THEN <<>>
    ELSE IF Head(rows).company_id \in seen THEN GroupKeys(Tail(rows), seen)
    ELSE <<Head(rows).company_id>> \o GroupKeys(Tail(rows), seen \cup {Head(rows).company_id})

\* Object.entries(alertsByCompany): the companies in order of first appearance
Groups(loaded) == GroupKeys(loaded, {})

\* alertsByCompany[companyId]
CompanyAlertsOf(loaded, companyId) == SelectSeq(loaded, LAMBDA r : r.company_id = companyId)

\* the alerts of the group the frame is at
CompanyAlerts(f) == CompanyAlertsOf(f.loaded, Groups(f.loaded)[f.g])

\* the end of a company group's loop: the service reports the group, then the next
\* group or the return
EndGroup(f) ==
    LET f1 == IF f.impl = "service"
              THEN [f EXCEPT !.results = Append(@, Groups(f.loaded)[f.g])]
              ELSE f
    IN  IF f.g < Len(Groups(f.loaded))
        THEN [f1 EXCEPT !.pc = "calc", !.g = @ + 1, !.k = 0]
        ELSE [f1 EXCEPT !.pc = "done"]

Advance_SameAlertAgain(f, k0, now) ==
    LET ca == CompanyAlerts(f)
        from == IF k0 > 1 THEN k0 - 1 ELSE k0
        firing == {k \in from..Len(ca) : ShouldFire(f.impl, ca[k], f.currentMnav, now)}
        stop == IF firing = {} THEN Len(ca) + 1 ELSE Min(firing)
        passed == {ca[k].id : k \in from..(stop - 1)}
        hit == {ca[k].id : k \in {stop} \cap (1..Len(ca))}
        f1 == [f EXCEPT
                 !.outcome = [a \in AlertIds |->
                                 IF a \in passed THEN "quiet"
                                 ELSE IF a \in hit THEN "firing" ELSE @[a]],
                 !.evalAt = [a \in AlertIds |->
                                 IF a \in passed \cup hit THEN now ELSE @[a]]]
    IN  IF firing # {} THEN [f1 EXCEPT !.pc = "insert", !.k = stop] ELSE EndGroup(f1)

\* the for-loop over the group's alerts from index k0 on, run at time now up to its
\* next await: the alerts that do not fire are passed, the first that fires stops
\* the loop at its insert
Advance(f, k0, now) ==
    LET ca == CompanyAlerts(f)
        firing == {k \in k0..Len(ca) : ShouldFire(f.impl, ca[k], f.currentMnav, now)}
        stop == IF firing = {} THEN Len(ca) + 1 ELSE Min(firing)
        passed == {ca[k].id : k \in k0..(stop - 1)}
        hit == {ca[k].id : k \in {stop} \cap (1..Len(ca))}
        f1 == [f EXCEPT
                 !.outcome = [a \in AlertIds |->
                                 IF a \in passed THEN "quiet"
                                 ELSE IF a \in hit THEN "firing" ELSE @[a]],
                 !.evalAt = [a \in AlertIds |->
                                 IF a \in passed \cup hit THEN now ELSE @[a]]]
    IN  IF firing # {} THEN [f1 EXCEPT !.pc = "insert", !.k = stop] ELSE EndGroup(f1)

(* ---- the monitor's steps ----------------------------------------------- *)
\* POST /api/mnav-monitor/check, POST /cron-check or the startMonitoring timer calls
\* the implementation, which runs up to its first await
Invoke(i, impl) ==
    /\ inv[i].pc = "idle"
    /\ runsLeft > 0
    /\ runsLeft' = runsLeft - 1
    /\ inv' = [inv EXCEPT ![i] = [IdleFrame EXCEPT !.pc = "load", !.impl = impl,
                                                   !.run = runsLeft]]
    /\ UNCHANGED <<navVars, serviceVars, clock, alerts, notifications, deliveryLog, ticksLeft,
                   requestsLeft>>

\* an invocation that starts when no other is in flight
InvokeAlone(i, impl) ==
    /\ \A j \in InvIds : inv[j].pc = "idle"
    /\ Invoke(i, impl)

\* the select of the active alerts returns; a store error ends the invocation (the
\* route throws, the service takes the empty list), and so does an empty list
LoadAlerts(i) ==
    /\ inv[i].pc = "load"
    /\ \E ok \in BOOLEAN :
         LET loaded == IF ok THEN ActiveAlerts(alerts) ELSE <<>>
         IN  inv' = [inv EXCEPT ![i] =
                        IF loaded = <<>> THEN [@ EXCEPT !.pc = "done"]
                        ELSE [@ EXCEPT !.pc = "calc", !.loaded = loaded, !.g = 1]]
    /\ UNCHANGED <<navVars, serviceVars, clock, alerts, notifications, deliveryLog, runsLeft, ticksLeft, requestsLeft>>

SkipGroup_Abort(f) == [f EXCEPT !.groupMnav[Groups(f.loaded)[f.g]] = Null, !.pc = "done"]

\* currentMnav === null: the group is skipped, without a result entry
SkipGroup(f) ==
    LET f1 == [f EXCEPT !.groupMnav[Groups(f.loaded)[f.g]] = Null]
    IN  IF f.g < Len(Groups(f.loaded))
        THEN [f1 EXCEPT !.g = @ + 1, !.k = 0]
        ELSE [f1 EXCEPT !.pc = "done"]

\* calculateCurrentMnav(companyId) returns for the group the frame is at, and the
\* loop over the group's alerts runs up to its first insert
CalcMnav(i) ==
    /\ inv[i].pc = "calc"
    /\ \E m \in MnavValues(inv[i].impl) :
         inv' = [inv EXCEPT ![i] =
                    IF m = Null THEN SkipGroup(@)
                    ELSE Advance([@ EXCEPT !.currentMnav = m,
                                           !.groupMnav[Groups(@.loaded)[@.g]] = m],
                                 1, clock)]
    /\ UNCHANGED <<navVars, serviceVars, clock, alerts, notifications, deliveryLog, runsLeft, ticksLeft, requestsLeft>>

\* the row the insert into mnav_notifications creates
NotificationRow(f, alert, now, rows) ==
    [id |-> Cardinality(rows) + 1, alert_id |-> alert.id,
     company_id |-> alert.company_id, mnav_value |-> f.currentMnav,
     threshold_value |-> alert.threshold_value, alert_type |-> alert.alert_type,
     created_at |-> now, sent |-> {}, last_error |-> FALSE, run |-> f.run]

Stamp_AllRows(tbl, id, now) ==
    [a \in AlertIds |-> [tbl[a] EXCEPT !.last_triggered_at = Whole(now)]]

\* update({ last_triggered_at: new Date().toISOString() }).eq("id", alert.id)
Stamp(tbl, id, now) == [tbl EXCEPT ![id].last_triggered_at = Whole(now)]

InsertOutcome_StampOnError(f, alert, ok, now, tbl, rows) ==
    IF ok
    THEN [frame |-> [f EXCEPT !.pc = "update", !.outcome[alert.id] = "created"],
          alerts |-> tbl,
          notifications |-> rows \cup {NotificationRow(f, alert, now, rows)}]
    ELSE [frame |-> Advance([f EXCEPT !.outcome[alert.id] = "insertFailed",
                                      !.reported = IF f.impl = "service"
                                                   THEN @ \cup {alert.id} ELSE @],
                            f.k + 1, now),
          alerts |-> Stamp(tbl, alert.id, now),
          notifications |-> rows]

\* What follows the insert into mnav_notifications.  With the row created, the
\* update of last_triggered_at is next.  On an error the route continues with the
\* next alert, triggerAlert returns to checkAllAlerts, which pushes the alert to
\* triggeredAlerts all the same, and recordTriggeredAlert returns null; the alert's
\* row is not touched.
InsertOutcome(f, alert, ok, now, tbl, rows) ==
    IF ok
    THEN [frame |-> [f EXCEPT !.pc = "update", !.outcome[alert.id] = "created"],
          alerts |-> tbl,
          notifications |-> rows \cup {NotificationRow(f, alert, now, rows)}]
    ELSE [frame |-> Advance([f EXCEPT !.outcome[alert.id] = "insertFailed",
                                      !.reported = IF f.impl = "service"
                                                   THEN @ \cup {alert.id} ELSE @],
                            f.k + 1, now),
          alerts |-> tbl,
          notifications |-> rows]

\* the insert into mnav_notifications returns
InsertNotification(i) ==
    /\ inv[i].pc = "insert"
    /\ \E ok \in BOOLEAN :
         LET r == InsertOutcome(inv[i], CompanyAlerts(inv[i])[inv[i].k], ok, clock,
                                alerts, notifications)
         IN  /\ inv' = [inv EXCEPT ![i] = r.frame]
             /\ alerts' = r.alerts
             /\ notifications' = r.notifications
    /\ UNCHANGED <<navVars, serviceVars, clock, deliveryLog, runsLeft, ticksLeft, requestsLeft>>

\* the update of last_triggered_at returns; its error is ignored (route) or logged
\* (service).  The alert is counted as triggered and the loop goes on.  The
\* service's sendNotifications follows: it delivers on no channel and writes an
\* empty update.
UpdateLastTriggered(i) ==
    /\ inv[i].pc = "update"
    /\ LET f == inv[i]
           alert == CompanyAlerts(f)[f.k]
       IN  \E ok \in BOOLEAN :
             /\ alerts' = IF ok THEN Stamp(alerts, alert.id, clock) ELSE alerts
             /\ inv' = [inv EXCEPT ![i] =
                          Advance([f EXCEPT
                                     !.outcome[alert.id] =
                                         IF ok THEN "written" ELSE "updateFailed",
                                     !.reported = @ \cup {alert.id}],
                                  f.k + 1, clock)]
    /\ UNCHANGED <<navVars, serviceVars, clock, notifications, deliveryLog, runsLeft, ticksLeft,
                   requestsLeft>>

\* the invocation returns its result and its frame is gone
Return(i) ==
    /\ inv[i].pc = "done"
    /\ inv' = [inv EXCEPT ![i] = IdleFrame]
    /\ UNCHANGED <<navVars, serviceVars, clock, alerts, notifications, deliveryLog, runsLeft, ticksLeft, requestsLeft>>

\* time passes, to the next instant: one hour after an instant that is a multiple of
\* six hours, five hours after the others, so that the instants within, at and
\* beyond six hours of one another all occur
Tick ==
    /\ ticksLeft > 0
    /\ ticksLeft' = ticksLeft - 1
    /\ clock' = clock + (IF clock % 6 = 0 THEN 1 ELSE 5)
    /\ UNCHANGED <<navVars, serviceVars, alerts, notifications, deliveryLog, inv, runsLeft, requestsLeft>>

\* time passes between invocations: an invocation is short against the hours
\* between two instants
TickIdle ==
    /\ \A j \in InvIds : inv[j].pc = "idle"
    /\ Tick

(* ---- the user's and the delivery service's requests ---------------------- *)
Channels == {"email", "telegram", "whatsapp"}

\* the bodies validateUpdateAlertRequest accepts: each field optional, one at least
UpdateRequests ==
    {u \in [threshold_value : PatchThresholds \cup {Undefined},
            alert_type : AlertTypes \cup {"undefined"},
            is_active : {"true", "false", "undefined"}] :
        ~(u.threshold_value = Undefined /\ u.alert_type = "undefined"
                                       /\ u.is_active = "undefined")}

PatchedRow_ResetsTrigger(row, u) ==
    [row EXCEPT
       !.threshold_value = IF u.threshold_value = Undefined THEN @ ELSE u.threshold_value,
       !.alert_type = IF u.alert_type = "undefined" THEN @ ELSE u.alert_type,
       !.is_active = IF u.is_active = "undefined" THEN @ ELSE u.is_active = "true",
       !.last_triggered_at = Null]

\* PATCH /api/mnav-alerts/:id: the row after the update of the fields given
PatchedRow(row, u) ==
    [row EXCEPT
       !.threshold_value = IF u.threshold_value = Undefined THEN @ ELSE u.threshold_value,
       !.alert_type = IF u.alert_type = "undefined" THEN @ ELSE u.alert_type,
       !.is_active = IF u.is_active = "undefined" THEN @ ELSE u.is_active = "true"]

\* PATCH /api/mnav-alerts/:id; the store may refuse the update (unique constraint)
PatchAlert(a) ==
    /\ requestsLeft > 0
    /\ requestsLeft' = requestsLeft - 1
    /\ \E u \in UpdateRequests, ok \in BOOLEAN :
         alerts' = IF ok THEN [alerts EXCEPT ![a] = PatchedRow(@, u)] ELSE alerts
    /\ UNCHANGED <<navVars, serviceVars, clock, notifications, deliveryLog, inv, runsLeft, ticksLeft>>

\* the rows the delivery endpoints add to notification_delivery_log
DeliveryLogEntries(ids, channel, status) ==
    {[notification_id |-> id, channel_type |-> channel, status |-> status] : id \in ids}

\* POST /api/mnav-alerts/mark-sent
MarkSent(ids, channel) ==
    /\ requestsLeft > 0
    /\ requestsLeft' = requestsLeft - 1
    /\ notifications' =
          {IF n.id \in ids THEN [n EXCEPT !.sent = @ \cup {channel}] ELSE n :
              n \in notifications}
    /\ deliveryLog' = deliveryLog \cup DeliveryLogEntries(ids, channel, "sent")
    /\ UNCHANGED <<navVars, serviceVars, clock, alerts, inv, runsLeft, ticksLeft>>

\* POST /api/mnav-alerts/mark-failed
MarkFailed(ids, channel) ==
    /\ requestsLeft > 0
    /\ requestsLeft' = requestsLeft - 1
    /\ notifications' =
          {IF n.id \in ids THEN [n EXCEPT !.last_error = TRUE] ELSE n :
              n \in notifications}
    /\ deliveryLog' = deliveryLog \cup DeliveryLogEntries(ids, channel, "failed")
    /\ UNCHANGED <<navVars, serviceVars, clock, alerts, inv, runsLeft, ticksLeft>>

NotificationIds == {n.id : n \in notifications}

(* ---- the NAV computation as an operation of its own ----------------------- *)
CallCalculateCurrentNAV ==
    /\ navPc = "ready"
    /\ navResult' = calculateCurrentNAV(navEnv)
    /\ navPc' = "nav"
    /\ UNCHANGED <<navEnv, mnavResult, fillVars, monitorVars, serviceVars>>

CallCalculateCurrentMnav ==
    /\ navPc = "ready"
    /\ navResult' = calculateCurrentNAV(NoPriceArguments(navEnv))
    /\ mnavResult' = calculateCurrentMnav(navEnv)
    /\ navPc' = "mnav"
    /\ UNCHANGED <<navEnv, fillVars, monitorVars, serviceVars>>

(***************************************************************************)
(* The background price update of the stock-prices route                   *)
(***************************************************************************)
UpdateReqIds == 1..MaxUpdateRequests

\* ?tickers=SBET, and the query without the parameter
RequestedTickers == {<<"SBET">>, <<>>}
\* what the select on companies gives: the tickers, or no data
CompanyTickers == {<<"BMNR", "SBET">>, <<>>}

\* new Date(), the time of which nothing depends on
StartedNow == [k |-> "date", n |-> 0, d |-> 1]

NoUpdateRequest == [pc |-> "none", status |-> 0, requested |-> <<>>]
NoUpdateRun == [state |-> "none", tickerList |-> <<>>, done |-> 0]

RunningUpdates == {r \in UpdateReqIds : updateRuns[r].state = "running"}

\* processTickerUpdates(tickerList), from the call to its first await: the three
\* assignments, and with an empty list the whole function
StartProcessTickerUpdates(r, tickerList) ==
    IF Len(tickerList) = 0
    THEN /\ isUpdateRunning' = FALSE
         /\ updateStartTime' = Null
         /\ updateTickers' = <<>>
         /\ updateRuns' = [updateRuns EXCEPT ![r] =
                              [state |-> "ended", tickerList |-> tickerList, done |-> 0]]
    ELSE /\ isUpdateRunning' = TRUE
         /\ updateStartTime' = StartedNow
         /\ updateTickers' = tickerList
         /\ updateRuns' = [updateRuns EXCEPT ![r] =
                              [state |-> "running", tickerList |-> tickerList, done |-> 0]]

\* router.get("/update"), from the arrival of the request to its first await or to
\* its response
GetUpdate(r, requested) ==
    /\ updateReqs[r].pc = "none"
    /\ IF isUpdateRunning
       THEN /\ updateReqs' = [updateReqs EXCEPT ![r] =
                                 [pc |-> "responded", status |-> 409, requested |-> requested]]
            /\ UNCHANGED <<isUpdateRunning, updateStartTime, updateTickers, updateRuns>>
       ELSE IF Len(requested) > 0
       THEN /\ StartProcessTickerUpdates(r, requested)
            /\ updateReqs' = [updateReqs EXCEPT ![r] =
                                 [pc |-> "responded", status |-> 202, requested |-> requested]]
       ELSE /\ updateReqs' = [updateReqs EXCEPT ![r] =
                                 [pc |-> "select", status |-> 0, requested |-> requested]]
            /\ UNCHANGED <<isUpdateRunning, updateStartTime, updateTickers, updateRuns>>
    /\ UNCHANGED <<navVars, monitorVars, priceVars, socketVars, quotaVars>>

\* the handler after await supabaseServiceRole.from("companies").select("ticker")
GetUpdateAfterSelect(r, tickers) ==
    /\ updateReqs[r].pc = "select"
    /\ StartProcessTickerUpdates(r, tickers)
    /\ updateReqs' = [updateReqs EXCEPT ![r].pc = "responded", ![r].status = 202]
    /\ UNCHANGED <<navVars, monitorVars, priceVars, socketVars, quotaVars>>

\* processTickerUpdates from its first await for a ticker to its first await for
\* the next one, or past the loop to its end
ProcessTicker(r) ==
    /\ updateRuns[r].state = "running"
    /\ LET done == updateRuns[r].done + 1
       IN  IF done < Len(updateRuns[r].tickerList)
           THEN /\ updateRuns' = [updateRuns EXCEPT ![r].done = done]
                /\ UNCHANGED <<isUpdateRunning, updateStartTime, updateTickers>>
           ELSE /\ updateRuns' = [updateRuns EXCEPT ![r].done = done, ![r].state = "ended"]
                /\ isUpdateRunning' = FALSE
                /\ updateStartTime' = Null
                /\ updateTickers' = <<>>
    /\ UNCHANGED <<updateReqs, navVars, monitorVars, priceVars, socketVars, quotaVars>>

(***************************************************************************)
(* The Finnhub price feed: debounced writes of realtime prices             *)
(***************************************************************************)
\* two of the tickers mapToTicker gives
PriceTickers == {"BMNR", "ETH-USD"}
TradePrices == {Whole(3), Whole(4)}

\* const DEBOUNCE_MS = 15000, in units of 5 seconds
DEBOUNCE_MS == 3

\* Date.now() when the service starts: a day after the epoch
PriceStart == 17280

\* flushPrice(ticker), to its await of the upsert: nothing without a pending price
flushPrice(pending, ticker) ==
    IF pending[ticker] = Undefined THEN UNCHANGED <<lastUpdateTime, pendingPrices, upserts>>
    ELSE /\ lastUpdateTime' = [lastUpdateTime EXCEPT ![ticker] = priceNow]
         /\ pendingPrices' = [pending EXCEPT ![ticker] = Undefined]
         /\ upserts' = [upserts EXCEPT ![ticker] =
                           Append(@, [at |-> priceNow, price |-> pending[ticker]])]

\* handleMessage on a trade: updatePrice(ticker, price), to its first await
updatePrice(ticker, price) ==
    /\ tradesLeft > 0
    /\ tradesLeft' = tradesLeft - 1
    /\ received' = [received EXCEPT ![ticker] = price]
    /\ LET pending == [pendingPrices EXCEPT ![ticker] = price]
       IN  IF priceNow - lastUpdateTime[ticker] < DEBOUNCE_MS
           THEN /\ pendingPrices' = pending
                /\ UNCHANGED <<lastUpdateTime, upserts>>
           ELSE flushPrice(pending, ticker)
    /\ UNCHANGED <<priceNow, flushInterval, flushing, navVars, monitorVars, updateVars, socketVars, quotaVars>>

\* Array.from(pendingPrices.keys()), in the order of insertion
PendingKeys(order) == SelectSeq(order, LAMBDA t : pendingPrices[t] # Undefined)

\* the interval's callback: flushAllPendingPrices(), to its first await
flushAllPendingPrices(order) ==
    /\ flushing = <<>>
    /\ priceNow = flushInterval
    /\ flushInterval' = flushInterval + DEBOUNCE_MS
    /\ LET tickers == PendingKeys(order)
       IN  IF tickers = <<>>
           THEN UNCHANGED <<flushing, lastUpdateTime, pendingPrices, upserts>>
           ELSE /\ flushPrice(pendingPrices, Head(tickers))
                /\ flushing' = Tail(tickers)
    /\ UNCHANGED <<priceNow, received, tradesLeft, navVars, monitorVars, updateVars, socketVars, quotaVars>>

\* flushAllPendingPrices after an upsert has returned: the next ticker of its list
FlushNext ==
    /\ flushing # <<>>
    /\ flushPrice(pendingPrices, Head(flushing))
    /\ flushing' = Tail(flushing)
    /\ UNCHANGED <<priceNow, flushInterval, received, tradesLeft, navVars, monitorVars, updateVars, socketVars, quotaVars>>

\* 5 seconds pass; the interval's callback is not late
PriceTick ==
    /\ priceNow < flushInterval
    /\ priceNow < PriceStart + MaxPriceTicks
    /\ priceNow' = priceNow + 1
    /\ UNCHANGED <<lastUpdateTime, pendingPrices, flushInterval, flushing, upserts, received,
                   tradesLeft, navVars, monitorVars, updateVars, socketVars, quotaVars>>

(***************************************************************************)
(* The websocket services (Finnhub, Finazon): connect, reconnect, stop     *)
(***************************************************************************)
WsServices == {"finnhub", "finazon"}

\* const MAX_RECONNECT_ATTEMPTS = 10
MAX_RECONNECT_ATTEMPTS == 10

\* connect(): the timer of scheduleReconnect fires and a new socket is created
connect(s) ==
    /\ reconnectTimers[s] > 0
    /\ reconnectTimers' = [reconnectTimers EXCEPT ![s] = @ - 1]
    /\ ws' = [ws EXCEPT ![s] = "socket"]
    /\ readyState' = [readyState EXCEPT ![s] = "connecting"]
    /\ UNCHANGED <<reconnectAttempts, intervalSet, stopped, navVars, monitorVars, updateVars,
                   priceVars, quotaVars>>

\* ws.on("open"): the counter is reset (and Finazon starts its heartbeat)
OnOpen(s) ==
    /\ readyState[s] = "connecting"
    /\ readyState' = [readyState EXCEPT ![s] = "open"]
    /\ reconnectAttempts' = [reconnectAttempts EXCEPT ![s] = 0]
    /\ intervalSet' = IF s = "finazon" THEN [intervalSet EXCEPT ![s] = TRUE] ELSE intervalSet
    /\ UNCHANGED <<ws, reconnectTimers, stopped, navVars, monitorVars, updateVars, priceVars, quotaVars>>

\* ws.on("close"), for a connection that failed, was lost or was closed by stop:
\* ws = null, (Finazon stops its heartbeat,) scheduleReconnect()
OnClose(s) ==
    /\ readyState[s] \in {"connecting", "open", "closing"}
    /\ readyState' = [readyState EXCEPT ![s] = "none"]
    /\ ws' = [ws EXCEPT ![s] = "null"]
    /\ intervalSet' = IF s = "finazon" THEN [intervalSet EXCEPT ![s] = FALSE] ELSE intervalSet
    /\ IF reconnectAttempts[s] >= MAX_RECONNECT_ATTEMPTS
       THEN UNCHANGED <<reconnectAttempts, reconnectTimers>>
       ELSE /\ reconnectAttempts' = [reconnectAttempts EXCEPT ![s] = @ + 1]
            /\ reconnectTimers' = [reconnectTimers EXCEPT ![s] = @ + 1]
    /\ UNCHANGED <<stopped, navVars, monitorVars, updateVars, priceVars, quotaVars>>

\* stopFinnhubWebSocket() / stopFinazonWebSocket(): the interval is cleared and the
\* socket ws refers to, if any, is closed
StopWebSocket(s) ==
    /\ ~stopped[s]
    /\ stopped' = [stopped EXCEPT ![s] = TRUE]
    /\ intervalSet' = [intervalSet EXCEPT ![s] = FALSE]
    /\ IF ws[s] = "socket"
       THEN /\ readyState' = [readyState EXCEPT ![s] = "closing"]
            /\ ws' = [ws EXCEPT ![s] = "null"]
       ELSE UNCHANGED <<ws, readyState>>
    /\ UNCHANGED <<reconnectAttempts, reconnectTimers, navVars, monitorVars, updateVars,
                   priceVars, quotaVars>>

(***************************************************************************)
(* The alert rules of a user: POST /mnav-alerts and PATCH /mnav-alerts/:id *)
(***************************************************************************)
AlertPostIds == 1..MaxAlertPosts

\* the two POST handlers: the one that counts the user's active rules of the
\* company, and the one that counts all of them and takes is_active from the body
PostImpls == {"countActive", "countAll"}

\* "Maximum 5 active alerts per company allowed"
MAX_ALERTS_PER_COMPANY == 5

NoAlertPost == [pc |-> "none", impl |-> "countActive", is_active |-> TRUE, status |-> 0]

ActiveRules == {i \in 1..Len(userAlerts) : userAlerts[i].is_active}

\* select("*", { count: "exact", head: true }) with the handler's filters
CountRules(impl) ==
    IF impl = "countActive" THEN Cardinality(ActiveRules) ELSE Len(userAlerts)

\* router.post("/"), to the answer of the count: 400 at the maximum
PostAlertCount(r, impl, is_active) ==
    /\ alertPosts[r].pc = "none"
    /\ impl = "countActive" => is_active
    /\ alertPosts' = [alertPosts EXCEPT ![r] =
          IF CountRules(impl) >= MAX_ALERTS_PER_COMPANY
          THEN [pc |-> "responded", impl |-> impl, is_active |-> is_active, status |-> 400]
          ELSE [pc |-> "insert", impl |-> impl, is_active |-> is_active, status |-> 0]]
    /\ UNCHANGED <<userAlerts, patchesLeft, navVars, monitorVars, updateVars, priceVars,
                   socketVars>>

\* router.post("/"), the insert and the response; the insert fails on a rule with
\* the same threshold and type
PostAlertInsert(r, inserted) ==
    /\ alertPosts[r].pc = "insert"
    /\ userAlerts' = IF inserted THEN Append(userAlerts, [is_active |-> alertPosts[r].is_active])
                     ELSE userAlerts
    /\ alertPosts' = [alertPosts EXCEPT ![r].pc = "responded",
                                        ![r].status = IF inserted THEN 201 ELSE 400]
    /\ UNCHANGED <<patchesLeft, navVars, monitorVars, updateVars, priceVars, socketVars>>

\* router.patch("/:id") with is_active in the body, for a rule of the user
PatchAlertActive(id, is_active) ==
    /\ patchesLeft > 0
    /\ id \in 1..Len(userAlerts)
    /\ patchesLeft' = patchesLeft - 1
    /\ userAlerts' = [userAlerts EXCEPT ![id].is_active = is_active]
    /\ UNCHANGED <<alertPosts, navVars, monitorVars, updateVars, priceVars, socketVars>>

(* ---- specifications ------------------------------------------------------- *)
\* a1 watches company c1 from above; a2 watches c1 or c2 from below
InitAlerts ==
    {[a \in AlertIds |->
        [company_id |-> IF a = "a1" THEN "c1" ELSE c,
         threshold_value |-> Whole(1),
         alert_type |-> IF a = "a1" THEN "above" ELSE "below",
         is_active |-> TRUE,
         last_triggered_at |-> Null]] :
     c \in Companies}

InitTables ==
    /\ clock = 0
    /\ notifications = {}
    /\ deliveryLog = {}
    /\ inv = [i \in InvIds |-> IdleFrame]

\* no postFillMetrics call of its own
InitFillIdle ==
    /\ fillMetrics = <<>>
    /\ fillPrices = <<>>
    /\ fillNow = [day |-> StartDay, afterMidnight |-> FALSE]
    /\ fillRows = <<>>
    /\ fillPc = "idle"

InitNavIdle ==
    /\ navEnv = CHOOSE e \in MonitorEnvs : TRUE
    /\ navResult = NullNav
    /\ mnavResult = Null
    /\ navPc = "idle"
    /\ InitFillIdle

\* no /update request
InitUpdateIdle ==
    /\ isUpdateRunning = FALSE
    /\ updateStartTime = Null
    /\ updateTickers = <<>>
    /\ updateReqs = [r \in UpdateReqIds |-> [NoUpdateRequest EXCEPT !.pc = "idle"]]
    /\ updateRuns = [r \in UpdateReqIds |-> NoUpdateRun]

\* the Finnhub service not started
InitPriceIdle ==
    /\ priceNow = 0
    /\ lastUpdateTime = [t \in PriceTickers |-> 0]
    /\ pendingPrices = [t \in PriceTickers |-> Undefined]
    /\ flushInterval = 0
    /\ flushing = <<>>
    /\ upserts = [t \in PriceTickers |-> <<>>]
    /\ received = [t \in PriceTickers |-> Undefined]
    /\ tradesLeft = 0

\* no websocket service started
InitSocketIdle ==
    /\ ws = [s \in WsServices |-> "null"]
    /\ readyState = [s \in WsServices |-> "none"]
    /\ reconnectAttempts = [s \in WsServices |-> 0]
    /\ reconnectTimers = [s \in WsServices |-> 0]
    /\ intervalSet = [s \in WsServices |-> FALSE]
    /\ stopped = [s \in WsServices |-> TRUE]

\* no alert request
InitQuotaIdle ==
    /\ userAlerts = <<>>
    /\ alertPosts = [r \in AlertPostIds |-> [NoAlertPost EXCEPT !.pc = "idle"]]
    /\ patchesLeft = 0

InitServicesIdle == InitUpdateIdle /\ InitPriceIdle /\ InitSocketIdle /\ InitQuotaIdle

Init ==
    /\ InitServicesIdle
    /\ InitTables
    /\ InitNavIdle
    /\ alerts \in InitAlerts
    /\ runsLeft = MaxRuns
    /\ ticksLeft = MaxTicks
    /\ requestsLeft = 0

Steps(i) ==
    \/ LoadAlerts(i)
    \/ CalcMnav(i)
    \/ InsertNotification(i)
    \/ UpdateLastTriggered(i)
    \/ Return(i)

\* invocations that follow one another: the first frame serves them all
Next ==
    \/ \E impl \in Impls : InvokeAlone(1, impl)
    \/ Steps(1)
    \/ TickIdle

Spec == Init /\ [][Next]_vars

\* the user has switched a2 off
InitRace ==
    /\ InitServicesIdle
    /\ InitTables
    /\ InitNavIdle
    /\ alerts \in {[t EXCEPT !["a2"].is_active = FALSE] : t \in InitAlerts}
    /\ runsLeft = RaceRuns
    /\ ticksLeft = RaceTicks
    /\ requestsLeft = 0

NextRace ==
    \/ \E i \in InvIds, impl \in Impls : Invoke(i, impl)
    \/ \E i \in InvIds : Steps(i)
    \/ Tick

SpecRace == InitRace /\ [][NextRace]_vars

\* hour 7, after a1 fired at hour 0
FiredNotification ==
    [id |-> 1, alert_id |-> "a1", company_id |-> "c1", mnav_value |-> Num(3, 2),
     threshold_value |-> Whole(1), alert_type |-> "above", created_at |-> 0,
     sent |-> {}, last_error |-> FALSE, run |-> OwnerBudget + 1]

InitOwner ==
    /\ InitServicesIdle
    /\ InitNavIdle
    /\ clock = 7
    /\ alerts \in {[t EXCEPT !["a1"].last_triggered_at = Whole(0)] : t \in InitAlerts}
    /\ notifications = {FiredNotification}
    /\ deliveryLog = {}
    /\ inv = [i \in InvIds |-> IdleFrame]
    /\ runsLeft \in 0..OwnerBudget
    /\ requestsLeft = OwnerBudget - runsLeft
    /\ ticksLeft = 0

NextOwner ==
    \/ \E impl \in Impls : InvokeAlone(1, impl)
    \/ Steps(1)
    \/ \E a \in AlertIds : PatchAlert(a)
    \/ \E ids \in SUBSET NotificationIds \ {{}}, ch \in Channels : MarkSent(ids, ch)
    \/ \E ids \in SUBSET NotificationIds \ {{}}, ch \in Channels : MarkFailed(ids, ch)

SpecOwner == InitOwner /\ [][NextOwner]_vars

InitNav ==
    /\ InitServicesIdle
    /\ navEnv \in NavEnvs
    /\ navResult = NullNav
    /\ mnavResult = Null
    /\ navPc = "ready"
    /\ InitFillIdle
    /\ InitTables
    /\ alerts = CHOOSE t \in InitAlerts : TRUE
    /\ runsLeft = 0
    /\ ticksLeft = 0
    /\ requestsLeft = 0

NextNav == CallCalculateCurrentNAV \/ CallCalculateCurrentMnav

SpecNav == InitNav /\ [][NextNav]_vars

\* one call of postFillMetrics
InitFill ==
    /\ InitServicesIdle
    /\ fillMetrics \in FillMetricsInputs
    /\ fillPrices \in FillPricesInputs
    /\ fillNow \in FillNows
    /\ fillRows = <<>>
    /\ fillPc = "ready"
    /\ navEnv = CHOOSE e \in MonitorEnvs : TRUE
    /\ navResult = NullNav
    /\ mnavResult = Null
    /\ navPc = "idle"
    /\ InitTables
    /\ alerts = CHOOSE t \in InitAlerts : TRUE
    /\ runsLeft = 0
    /\ ticksLeft = 0
    /\ requestsLeft = 0

NextFill == CallPostFillMetrics

SpecFill == InitFill /\ [][NextFill]_vars

(* ---- postFillMetrics on rows as any caller may pass them ------------------- *)
\* the rows of either argument, at most
MaxRawRows == 2

\* rows of company_metrics on the first two days: holdings with concentration, or
\* cash alone, which may be 2, 0 or null
RawDisclosures ==
    {Disclosure(d, Whole(100), Whole(500), Undefined, Undefined, Undefined) : d \in {1, 2}}
        \cup {Disclosure(d, Undefined, Undefined, u, Undefined, Undefined) :
                 d \in {1, 2}, u \in {Whole(2), Whole(0), Null}}

\* rows of stock_prices on the first two days
RawPrices == {StockPrice(1, Whole(3)), StockPrice(2, Whole(3)), StockPrice(1, Whole(0))}

\* the arrays of at most n rows, in any order and with any repetition
ArraysOf(rows, n) == UNION {[1..k -> rows] : k \in 0..n}

\* one call of postFillMetrics(metrics, stockPrices, startDate) with arrays that
\* need not be sorted and may hold several rows of one day
InitFillRaw ==
    /\ InitServicesIdle
    /\ fillMetrics \in ArraysOf(RawDisclosures, MaxRawRows)
    /\ fillPrices \in ArraysOf(RawPrices, MaxRawRows)
    /\ fillNow \in FillNows
    /\ fillRows = <<>>
    /\ fillPc = "ready"
    /\ navEnv = CHOOSE e \in MonitorEnvs : TRUE
    /\ navResult = NullNav
    /\ mnavResult = Null
    /\ navPc = "idle"
    /\ InitTables
    /\ alerts = CHOOSE t \in InitAlerts : TRUE
    /\ runsLeft = 0
    /\ ticksLeft = 0
    /\ requestsLeft = 0

SpecFillRaw == InitFillRaw /\ [][NextFill]_vars

\* GET /update requests arriving in any order while earlier ones are served
InitUpdate ==
    /\ InitTables
    /\ InitNavIdle
    /\ alerts = CHOOSE t \in InitAlerts : TRUE
    /\ runsLeft = 0
    /\ ticksLeft = 0
    /\ requestsLeft = 0
    /\ isUpdateRunning = FALSE
    /\ updateStartTime = Null
    /\ updateTickers = <<>>
    /\ updateReqs = [r \in UpdateReqIds |-> NoUpdateRequest]
    /\ updateRuns = [r \in UpdateReqIds |-> NoUpdateRun]
    /\ InitPriceIdle
    /\ InitSocketIdle
    /\ InitQuotaIdle

NextUpdate ==
    \/ \E r \in UpdateReqIds, requested \in RequestedTickers : GetUpdate(r, requested)
    \/ \E r \in UpdateReqIds, tickers \in CompanyTickers : GetUpdateAfterSelect(r, tickers)
    \/ \E r \in UpdateReqIds : ProcessTicker(r)

SpecUpdate == InitUpdate /\ [][NextUpdate]_vars

\* startFinnhubWebSocket() has just run
InitPrice ==
    /\ InitTables
    /\ InitNavIdle
    /\ alerts = CHOOSE t \in InitAlerts : TRUE
    /\ runsLeft = 0
    /\ ticksLeft = 0
    /\ requestsLeft = 0
    /\ InitUpdateIdle
    /\ priceNow = PriceStart
    /\ lastUpdateTime = [t \in PriceTickers |-> 0]
    /\ pendingPrices = [t \in PriceTickers |-> Undefined]
    /\ flushInterval = PriceStart + DEBOUNCE_MS
    /\ flushing = <<>>
    /\ upserts = [t \in PriceTickers |-> <<>>]
    /\ received = [t \in PriceTickers |-> Undefined]
    /\ tradesLeft = MaxTrades
    /\ InitSocketIdle
    /\ InitQuotaIdle

NextPrice ==
    \/ \E t \in PriceTickers, p \in TradePrices : updatePrice(t, p)
    \/ \E order \in {<<"BMNR", "ETH-USD">>, <<"ETH-USD", "BMNR">>} : flushAllPendingPrices(order)
    \/ FlushNext
    \/ PriceTick

SpecPrice == InitPrice /\ [][NextPrice]_vars

\* startFinnhubWebSocket() and startFinazonWebSocket() have just run
InitSocket ==
    /\ InitTables
    /\ InitNavIdle
    /\ alerts = CHOOSE t \in InitAlerts : TRUE
    /\ runsLeft = 0
    /\ ticksLeft = 0
    /\ requestsLeft = 0
    /\ InitUpdateIdle
    /\ InitPriceIdle
    /\ ws = [s \in WsServices |-> "socket"]
    /\ readyState = [s \in WsServices |-> "connecting"]
    /\ reconnectAttempts = [s \in WsServices |-> 0]
    /\ reconnectTimers = [s \in WsServices |-> 0]
    /\ intervalSet = [s \in WsServices |-> s = "finnhub"]
    /\ stopped = [s \in WsServices |-> FALSE]
    /\ InitQuotaIdle

NextSocket ==
    \E s \in WsServices : connect(s) \/ OnOpen(s) \/ OnClose(s) \/ StopWebSocket(s)

SpecSocket == InitSocket /\ [][NextSocket]_vars

\* a user who has created InitialRules rules for the company, all active
InitQuota ==
    /\ InitTables
    /\ InitNavIdle
    /\ alerts = CHOOSE t \in InitAlerts : TRUE
    /\ runsLeft = 0
    /\ ticksLeft = 0
    /\ requestsLeft = 0
    /\ InitUpdateIdle
    /\ InitPriceIdle
    /\ InitSocketIdle
    /\ userAlerts = [i \in 1..InitialRules |-> [is_active |-> TRUE]]
    /\ alertPosts = [r \in AlertPostIds |-> NoAlertPost]
    /\ patchesLeft = MaxAlertPatches

NextQuota ==
    \/ \E r \in AlertPostIds, impl \in PostImpls, a \in BOOLEAN : PostAlertCount(r, impl, a)
    \/ \E r \in AlertPostIds, inserted \in BOOLEAN : PostAlertInsert(r, inserted)
    \/ \E id \in 1..(InitialRules + MaxAlertPosts), a \in BOOLEAN : PatchAlertActive(id, a)

SpecQuota == InitQuota /\ [][NextQuota]_vars

(***************************************************************************)
(* Properties                                                              *)
(***************************************************************************)
\* the row of alert a in the snapshot a frame loaded, if it loaded one
HasLoaded(f, a) == \E k \in 1..Len(f.loaded) : f.loaded[k].id = a
LoadedRow(f, a) == f.loaded[CHOOSE k \in 1..Len(f.loaded) : f.loaded[k].id = a]

\* the notifications a frame's invocation created for alert a
CreatedBy(f, a) == {n \in notifications : n.run = f.run /\ n.alert_id = a}

\* the mNAV is strictly beyond the threshold in the alert's direction
Qualifies(mnav, row) ==
    \/ row.alert_type = "above" /\ JsGt(mnav, row.threshold_value)
    \/ row.alert_type = "below" /\ JsLt(mnav, row.threshold_value)

Fired == {"firing", "insertFailed", "created", "written", "updateFailed"}
Inserted == {"created", "written", "updateFailed"}

\* C1: under every interleaving of monitor invocations, two notifications of one
\* alert are never created less than the cooldown of 6 hours apart.
AtMostOnePerCooldownWindow ==
    \A n1 \in notifications, n2 \in notifications :
        (n1.alert_id = n2.alert_id /\ n1.id # n2.id)
            => Abs(n1.created_at - n2.created_at) >= COOLDOWN_HOURS

\* C2: an invocation that loaded an alert with last_triggered_at = t0 and evaluates
\* it less than 6 hours after t0 (so at t0 + 1 hour) creates no notification for
\* it; one that evaluates it more than 6 hours after t0 (so at t0 + 7 hours) with a
\* qualifying mNAV goes on to create one, and has created exactly one once the store
\* has accepted the insert.
CooldownIdempotence ==
    \A i \in InvIds : \A a \in AlertIds :
        LET f == inv[i]
        IN  (HasLoaded(f, a) /\ LoadedRow(f, a).last_triggered_at # Null
                             /\ f.evalAt[a] # NotYet)
            => LET row == LoadedRow(f, a)
                   elapsed == f.evalAt[a] - row.last_triggered_at.n
               IN  /\ elapsed < 6 => (f.outcome[a] = "quiet" /\ CreatedBy(f, a) = {})
                   /\ (elapsed > 6 /\ Qualifies(f.groupMnav[row.company_id], row))
                        => /\ f.outcome[a] \in Fired
                           /\ Cardinality(CreatedBy(f, a)) <= 1
                           /\ f.outcome[a] \in Inserted
                                => Cardinality(CreatedBy(f, a)) = 1

\* an alert that fired at hour 0 fires again at hour 7, with one notification
CooldownIdempotenceWitness ==
    \E i \in InvIds : \E a \in AlertIds :
        /\ HasLoaded(inv[i], a)
        /\ LoadedRow(inv[i], a).last_triggered_at = Whole(0)
        /\ inv[i].evalAt[a] = 7
        /\ inv[i].outcome[a] = "written"
        /\ Cardinality(CreatedBy(inv[i], a)) = 1
        /\ \E n \in notifications : n.alert_id = a /\ n.created_at = 0

\* C3: an alert evaluated with an mNAV equal to its threshold does not fire, in
\* either direction; every notification's mNAV is strictly beyond its threshold in
\* the alert's direction; an unknown direction fires at no mNAV.
ThresholdBoundary ==
    /\ \A i \in InvIds : \A a \in AlertIds :
         (HasLoaded(inv[i], a) /\ inv[i].evalAt[a] # NotYet)
            => LET row == LoadedRow(inv[i], a)
                   mnav == inv[i].groupMnav[row.company_id]
               IN  /\ mnav = row.threshold_value => inv[i].outcome[a] = "quiet"
                   /\ inv[i].outcome[a] \in Fired => Qualifies(mnav, row)
    /\ \A n \in notifications :
         /\ n.mnav_value # n.threshold_value
         /\ Qualifies(n.mnav_value, n)
    /\ \A m \in {Num(1, 2), Whole(1), Num(3, 2)} :
         /\ ~checkAlertCondition(m, Whole(1), "sideways")
         /\ ~shouldTriggerAlert([alert_type |-> "sideways", threshold_value |-> Whole(1),
                                 last_triggered_at |-> Null], m, clock)

\* alerts of both directions, never triggered before, evaluated at mNAV = threshold
ThresholdBoundaryWitness ==
    \E i \in InvIds :
        /\ inv[i].pc = "done"
        /\ \A a \in AlertIds :
             /\ HasLoaded(inv[i], a)
             /\ LoadedRow(inv[i], a).last_triggered_at = Null
             /\ inv[i].groupMnav[LoadedRow(inv[i], a).company_id]
                    = LoadedRow(inv[i], a).threshold_value
             /\ inv[i].outcome[a] = "quiet"
        /\ {LoadedRow(inv[i], a).alert_type : a \in AlertIds} = AlertTypes

\* C4: an invocation whose notification insert for an alert failed has not written
\* that alert's last_triggered_at: it still has the value the invocation loaded.
FailedCreateLeavesLastTriggered ==
    \A i \in InvIds : \A a \in AlertIds :
        inv[i].outcome[a] = "insertFailed"
            => /\ alerts[a].last_triggered_at = LoadedRow(inv[i], a).last_triggered_at
               /\ CreatedBy(inv[i], a) = {}

\* an invocation has returned from a failed insert
FailedCreateWitness ==
    \E i \in InvIds : \E a \in AlertIds :
        inv[i].pc = "done" /\ inv[i].outcome[a] = "insertFailed"

TriggerOrdering ==
    /\ \A a \in AlertIds :
         alerts[a].last_triggered_at # Null
            => \E n \in notifications :
                 n.alert_id = a /\ n.created_at <= alerts[a].last_triggered_at.n
    /\ \A i \in InvIds : \A a \in AlertIds :
         /\ inv[i].outcome[a] \in Inserted => Cardinality(CreatedBy(inv[i], a)) = 1
         /\ inv[i].outcome[a] = "written" => alerts[a].last_triggered_at = Whole(clock)
         /\ inv[i].outcome[a] \in {"firing", "created"}
              => alerts[a].last_triggered_at = LoadedRow(inv[i], a).last_triggered_at

\* a notification is in the store and the update of last_triggered_at still pending
TriggerOrderingWitness ==
    \E i \in InvIds : \E a \in AlertIds :
        /\ inv[i].pc = "update"
        /\ inv[i].outcome[a] = "created"
        /\ alerts[a].last_triggered_at = Null
        /\ Cardinality(CreatedBy(inv[i], a)) = 1

\* the identity and the content of the notifications the monitor created
NotificationCore ==
    {[id |-> n.id, alert_id |-> n.alert_id, mnav_value |-> n.mnav_value,
      threshold_value |-> n.threshold_value, created_at |-> n.created_at] :
        n \in notifications}

\* C7: a step that changes an alert's last_triggered_at is the monitor's update, a
\* step that creates a notification is the monitor's insert, and a step that serves
\* a PATCH, mark-sent or mark-failed request changes neither.
ExclusiveOwnership ==
    [][/\ \A a \in AlertIds :
            alerts'[a].last_triggered_at # alerts[a].last_triggered_at
               => \E i \in InvIds : inv[i].pc = "update" /\ inv'[i].outcome[a] = "written"
       /\ NotificationCore' # NotificationCore
            => \E i \in InvIds : inv[i].pc = "insert" /\ inv'[i].pc = "update"
       /\ requestsLeft' # requestsLeft
            => /\ \A a \in AlertIds :
                    alerts'[a].last_triggered_at = alerts[a].last_triggered_at
               /\ NotificationCore' = NotificationCore]_vars

\* a PATCH has changed a triggered alert and a mark-sent a notification
ExclusiveOwnershipWitness ==
    /\ requestsLeft = 0
    /\ alerts["a1"].threshold_value = Whole(2)
    /\ alerts["a1"].last_triggered_at = Whole(0)
    /\ \E n \in notifications : "email" \in n.sent

\* the inputs the computation read: a calculateCurrentMnav call passes no prices
NavInputs == IF navPc = "mnav" THEN NoPriceArguments(navEnv) ELSE navEnv
LiveAssetPrice == JsOr(NavInputs.currentEthPrice, NavInputs.gatewayEthPrice)
LiveEquityPrice == JsOr(NavInputs.currentStockPrice, NavInputs.gatewayStockPrice)
HasLatestMetric == NavInputs.allMetricsLength > 0 /\ Len(NavInputs.processedMetrics) > 0
LatestMetric == NavInputs.processedMetrics[Len(NavInputs.processedMetrics)]
NavComputed == navPc \in {"nav", "mnav"}

ExampleInputs ==
    /\ NavComputed
    /\ HasLatestMetric
    /\ LatestMetric = CompanyMetric(Whole(1000), Whole(10000), Whole(500000))
    /\ LiveAssetPrice = Whole(2000)
    /\ LiveEquityPrice = Whole(250)
    /\ NavInputs.alternativeAssetsValue = Whole(0)

InvalidNavFails ==
    /\ (NavComputed /\ ~navResult.isNull) => JsGt(navResult.totalNavValue, Whole(0))
    /\ (navPc = "mnav" /\ mnavResult # Null /\ HasLatestMetric
                       /\ IsFinite(LatestMetric.sharesOutstanding))
          => IsFinite(mnavResult) /\ JsGt(mnavResult, Whole(0))

(* ---- MetricSeriesFiller ------------------------------------------------ *)
Filled == fillPc = "filled"
EmittedDays == {fillRows[k].date : k \in 1..Len(fillRows)}
EnumeratedDays == {FillDates(fillNow, StartDay)[i] : i \in DOMAIN FillDates(fillNow, StartDay)}

\* the disclosures on or before a day that carry a non-zero value of a field, and
\* the value the most recent of them carries (0 without one)
Carrying(field, day) ==
    {i \in 1..Len(fillMetrics) : fillMetrics[i].date <= day /\ Truthy(fillMetrics[i][field])}
MostRecent(field, day) ==
    IF Carrying(field, day) = {} THEN Whole(0)
    ELSE fillMetrics[CHOOSE i \in Carrying(field, day) :
                        \A j \in Carrying(field, day) :
                            fillMetrics[j].date <= fillMetrics[i].date][field]

\* disclosures on day 1 (holdings 100, concentration 500) and day 5 (holdings 150)
\* only, and a price on day 1
ForwardFillExample ==
    /\ fillMetrics = <<Disclosure(1, Whole(100), Whole(500), Undefined, Undefined, Undefined),
                       Disclosure(5, Whole(150), Undefined, Undefined, Undefined, Undefined)>>
    /\ \E p \in 1..Len(fillPrices) : fillPrices[p].date = 1 /\ Truthy(fillPrices[p].close)

\* C11: every emitted row's ethHoldings is the eth_holdings of the most recent
\* disclosure on or before the row's day that carries a non-zero one (0 without
\* one); with the disclosures of the example, every day from day 2 on has a row, the
\* rows of days 2 to 4 report 100 and the rows of day 5 and later report 150.
ForwardFillCorrect ==
    Filled =>
        /\ \A k \in 1..Len(fillRows) :
             fillRows[k].ethHoldings = MostRecent("eth_holdings", fillRows[k].date)
        /\ ForwardFillExample =>
             /\ EmittedDays = EnumeratedDays
             /\ \A k \in 1..Len(fillRows) :
                  /\ fillRows[k].date \in 2..4 => fillRows[k].ethHoldings = Whole(100)
                  /\ fillRows[k].date >= 5 => fillRows[k].ethHoldings = Whole(150)

\* the example, filled up to day 6
ForwardFillWitness ==
    /\ Filled
    /\ ForwardFillExample
    /\ Len(fillRows) = 6
    /\ fillRows[4].date = 4 /\ fillRows[4].ethHoldings = Whole(100)
    /\ fillRows[6].date = 6 /\ fillRows[6].ethHoldings = Whole(150)

\* a price has been seen on an enumerated day up to the given one
PriceSeenBy(day) ==
    \E e \in EnumeratedDays :
        /\ e <= day
        /\ \E p \in 1..Len(fillPrices) : fillPrices[p].date = e /\ Truthy(fillPrices[p].close)

\* a disclosure on or before the day has one of the five fields
DisclosedBy(day) ==
    \E i \in 1..Len(fillMetrics) :
        /\ fillMetrics[i].date <= day
        /\ {fillMetrics[i].eth_holdings, fillMetrics[i].eth_concentration,
            fillMetrics[i].avg_buy_price, fillMetrics[i].usd_holdings,
            fillMetrics[i].staking_rewards} # {Undefined}

\* C12: two consecutive rows of the output are dated on adjacent days; an enumerated
\* day has no row only if no price had been seen by it or no disclosure on or before
\* it has any field, and these days all come before the first row.
NoGaps ==
    Filled =>
        /\ \A k \in 1..(Len(fillRows) - 1) : fillRows[k + 1].date = fillRows[k].date + 1
        /\ \A d \in EnumeratedDays :
             d \notin EmittedDays <=> (~PriceSeenBy(d) \/ ~DisclosedBy(d))
        /\ \A d \in EnumeratedDays \ EmittedDays : \A e \in EmittedDays : d < e

\* a series that starts at the first price, on day 4, after three skipped days
NoGapsWitness ==
    /\ Filled
    /\ Len(fillRows) = 3
    /\ fillRows[1].date = 4
    /\ fillRows[3].date = 6
    /\ DisclosedBy(1)

ZeroConcentrationGuard ==
    Filled =>
        \A k \in 1..Len(fillRows) :
            /\ IsFinite(fillRows[k].sharesOutstanding)
            /\ fillRows[k].ethConcentration # Whole(0)

\* the enumerated days up to the given one whose price row has a non-zero close, and
\* the close of the latest of them
PricedDays(day) ==
    {e \in EnumeratedDays :
        e <= day /\ \E p \in 1..Len(fillPrices) :
                        fillPrices[p].date = e /\ Truthy(fillPrices[p].close)}
LatestPrice(day) ==
    LET e == CHOOSE x \in PricedDays(day) : \A y \in PricedDays(day) : y <= x
    IN  fillPrices[CHOOSE p \in 1..Len(fillPrices) : fillPrices[p].date = e].close

\* C20: no row is emitted for a day by which no price has been seen on an enumerated
\* day; once a price has been seen, the later days without a price of their own have
\* their rows too, and every row's marketCap is computed from the latest price seen.
NoRowBeforeFirstPrice ==
    Filled =>
        /\ \A k \in 1..Len(fillRows) : PriceSeenBy(fillRows[k].date)
        /\ \A d \in EnumeratedDays : (PriceSeenBy(d) /\ DisclosedBy(d)) => d \in EmittedDays
        /\ \A k \in 1..Len(fillRows) :
             fillRows[k].marketCap =
                 JsMul(LatestPrice(fillRows[k].date), fillRows[k].sharesOutstanding)

\* a price of 3 on day 1 and of 6 on day 4: day 2 is skipped by no one, day 3 still
\* has the price of day 1 and day 5 the price of day 4
NoRowBeforeFirstPriceWitness ==
    /\ Filled
    /\ Len(fillRows) >= 5
    /\ fillRows[1].date = 1
    /\ fillRows[3].date = 3 /\ fillRows[3].marketCap = Whole(600)
    /\ fillRows[5].date = 5 /\ fillRows[5].marketCap = Whole(1200)
    /\ \E p \in 1..Len(fillPrices) : fillPrices[p].date = 0

(* ---- AlertMonitor: the two implementations side by side ------------------- *)
\* C15: an alert evaluated exactly 6 hours after the last_triggered_at it was loaded
\* with does not fire, whichever implementation evaluates it: the cooldown is strict
\* in checkMnavThresholds and in MnavMonitorService alike.
CooldownIsStrict ==
    \A i \in InvIds : \A a \in AlertIds :
        LET f == inv[i]
        IN  (/\ HasLoaded(f, a)
             /\ LoadedRow(f, a).last_triggered_at # Null
             /\ f.evalAt[a] # NotYet
             /\ f.evalAt[a] - LoadedRow(f, a).last_triggered_at.n = SIX_HOURS)
            => f.outcome[a] = "quiet"

\* C16: the alerts an invocation reports as fired in its result (alertsTriggered,
\* triggered_alerts) are exactly the alerts for which that invocation created a
\* notification; an alert whose insert failed is not reported.
ReportedAreCreated ==
    \A i \in InvIds :
        inv[i].pc = "done"
            => inv[i].reported = {a \in AlertIds : CreatedBy(inv[i], a) # {}}

\* how an invocation's record of an alert can change: evaluated once, then at most
\* one insert, then at most one update
OutcomeSteps ==
    {<<"none", "quiet">>, <<"none", "firing">>,
     <<"firing", "insertFailed">>, <<"firing", "created">>,
     <<"created", "written">>, <<"created", "updateFailed">>}

\* the alert whose insert or update a frame is waiting for
AwaitedAlert(f) == CompanyAlerts(f)[f.k].id

InvocationStep(i) ==
    LET f == inv[i]
        g == inv'[i]
    IN  (f.pc # "idle" /\ g.pc # "idle" /\ g # f)
        => /\ g.run = f.run
           /\ \A a \in AlertIds :
                \/ g.outcome[a] = f.outcome[a]
                \/ <<f.outcome[a], g.outcome[a]>> \in OutcomeSteps
           /\ f.pc = "insert"
                => /\ f.outcome[AwaitedAlert(f)] = "firing"
                   /\ g.outcome[AwaitedAlert(f)] \in {"insertFailed", "created"}
                   /\ Cardinality(notifications') <= Cardinality(notifications) + 1
                   /\ alerts' = alerts
           /\ f.pc = "update"
                => /\ f.outcome[AwaitedAlert(f)] = "created"
                   /\ g.outcome[AwaitedAlert(f)] \in {"written", "updateFailed"}
                   /\ notifications' = notifications
                   /\ \A a \in AlertIds \ {AwaitedAlert(f)} : alerts'[a] = alerts[a]
           /\ f.pc \notin {"insert", "update"}
                => notifications' = notifications /\ alerts' = alerts

\* C17: within one invocation an alert gets at most one insert attempt and at most
\* one update attempt.  An insert is attempted only for the alert that is "firing"
\* and ends that state for good, an update only for the alert that is "created" and
\* ends that state for good; a failed attempt is not repeated and the loop moves on.
NoInLoopRetry == [][\A i \in InvIds : InvocationStep(i)]_vars

\* an invocation has returned after a failed insert for one alert and a failed
\* update for the other, each attempted once
NoInLoopRetryWitness ==
    \E i \in InvIds :
        /\ inv[i].pc = "done"
        /\ {inv[i].outcome[a] : a \in AlertIds} = {"insertFailed", "updateFailed"}
        /\ Cardinality({n \in notifications : n.run = inv[i].run}) = 1

(* ---- AlertMonitor: the monitor that keeps running ------------------------- *)
\* the update of last_triggered_at may fail while no more notifications than this
\* exist
LiveFailures == 0

\* the implementations that run periodically: checkMnavThresholds behind POST
\* /cron-check, checkAllAlerts behind the startMonitoring timer
PeriodicImpls == {"route", "service"}

\* the startMonitoring timer calls checkAllAlerts, an external scheduler POSTs
\* /api/mnav-monitor/check or /cron-check, again and again; the invocation runs up
\* to its first await
PeriodicCheck(impl) ==
    /\ \A j \in InvIds : inv[j].pc = "idle"
    /\ inv' = [inv EXCEPT ![1] = [IdleFrame EXCEPT !.pc = "load", !.impl = impl]]
    /\ UNCHANGED <<navVars, serviceVars, clock, alerts, notifications, deliveryLog, runsLeft,
                   ticksLeft, requestsLeft>>

\* the update of last_triggered_at returns; the store's failures of it are finitely
\* many
UpdateLastTriggeredLive ==
    /\ UpdateLastTriggered(1)
    /\ inv'[1].outcome[CompanyAlerts(inv[1])[inv[1].k].id] = "updateFailed"
         => Cardinality(notifications) <= LiveFailures

\* the store's answers to the invocation in flight, and its return
StoreSteps ==
    \/ LoadAlerts(1)
    \/ InsertNotification(1)
    \/ UpdateLastTriggeredLive
    \/ Return(1)

InitLive ==
    /\ InitServicesIdle
    /\ InitTables
    /\ InitNavIdle
    /\ alerts \in InitAlerts
    /\ runsLeft = 0
    /\ ticksLeft = MaxTicks
    /\ requestsLeft = 0

NextLive ==
    \/ \E impl \in PeriodicImpls : PeriodicCheck(impl)
    \/ StoreSteps
    \/ CalcMnav(1)
    \/ TickIdle

\* the invocation in flight is about to compute the mNAV of alert a's company
ConditionEvaluated(a) ==
    /\ inv[1].pc = "calc"
    /\ HasLoaded(inv[1], a)
    /\ Groups(inv[1].loaded)[inv[1].g] = LoadedRow(inv[1], a).company_id

\* the mNAV of alert a's company is computed, is not null and is beyond a's
\* threshold
ConditionHolds(a) ==
    /\ ConditionEvaluated(a)
    /\ CalcMnav(1)
    /\ inv'[1].groupMnav[LoadedRow(inv[1], a).company_id] # Null
    /\ Qualifies(inv'[1].groupMnav[LoadedRow(inv[1], a).company_id], LoadedRow(inv[1], a))

\* Time passes; invocations keep occurring and each goes on to its end; the select
\* of the alerts, the mNAV computation with the alert's condition holding and the
\* insert of the notification succeed again and again.
\* the steps that run the loop over a group's alerts on
LoopSteps == CalcMnav(1) \/ InsertNotification(1) \/ UpdateLastTriggeredLive

\* The fairness of the loop's steps is written out, WF as []<>~ENABLED \/ []<><A> and
\* SF as <>[]~ENABLED \/ []<><A>, with the step's enabling condition for ENABLED:
\* a loop step is enabled exactly when the frame is at "calc", "insert" or "update",
\* ConditionHolds(a) exactly when ConditionEvaluated(a), and the successful insert
\* exactly when the frame is at "insert".
LiveFairness ==
    /\ SF_vars(TickIdle)
    /\ WF_vars(\E impl \in PeriodicImpls : PeriodicCheck(impl))
    /\ WF_vars(LoadAlerts(1) \/ Return(1))
    /\ SF_vars(LoadAlerts(1) /\ inv'[1].pc = "calc")
    /\ \/ []<>(inv[1].pc \notin {"calc", "insert", "update"})
       \/ []<><<LoopSteps>>_vars
    /\ \A a \in AlertIds :
         \/ <>[](~ConditionEvaluated(a))
         \/ []<><<ConditionHolds(a)>>_vars
    /\ \/ <>[](inv[1].pc # "insert")
       \/ []<><<InsertNotification(1) /\ inv'[1].pc = "update">>_vars

SpecLive == InitLive /\ [][NextLive]_vars /\ LiveFairness

\* the instants the clock takes
RECURSIVE ClockAfter(_)
ClockAfter(n) ==
    IF n = 0 THEN 0
    ELSE ClockAfter(n - 1) + (IF ClockAfter(n - 1) % 6 = 0 THEN 1 ELSE 5)

Instants == {ClockAfter(n) : n \in 0..MaxTicks}

\* alert a is cooling since t and an instant beyond the cooldown is to come
CoolingSince(a, t) ==
    /\ alerts[a].last_triggered_at = Whole(t)
    /\ \E c \in Instants : c - t > COOLDOWN_HOURS

FiredAgainAfter(a, t) ==
    \E n \in notifications : n.alert_id = a /\ n.created_at - t >= COOLDOWN_HOURS

\* a cooling alert has not fired again yet
Owed(a, t) == CoolingSince(a, t) /\ ~FiredAgainAfter(a, t)

\* C18: an alert that fired at t fires again once the cooldown is over, with no
\* stored flag to clear: if the alert stays active, its condition holds again and
\* again, invocations keep occurring and the mNAV computation and the store's writes
\* eventually succeed, a new notification of the alert is created 6 hours after t or
\* later.  An alert that is cooling since t stays so until it has fired again, and
\* again and again no alert is left that is cooling and has not fired again.
RearmingLiveness ==
    /\ [][\A a \in AlertIds : \A t \in Instants :
            Owed(a, t) => (CoolingSince(a, t)' \/ FiredAgainAfter(a, t)')]_vars
    /\ []<>(\A a \in AlertIds : \A t \in Instants : ~Owed(a, t))

\* an alert that fired at hour 0 and was cooling at hour 1 has fired again at hour 7
RearmingWitness ==
    \E a \in AlertIds :
        /\ clock = 7
        /\ alerts[a].last_triggered_at = Whole(7)
        /\ {n.created_at : n \in {m \in notifications : m.alert_id = a}} = {0, 7}

(* ---- AlertMonitor: the user switches an alert off ------------------------- *)
\* a step creates a notification of alert a or writes its last_triggered_at
FiresOrStamps(a) ==
    \/ \E n \in notifications' : n.alert_id = a /\ n.id \notin NotificationIds
    \/ alerts'[a].last_triggered_at # alerts[a].last_triggered_at

\* C19: an invocation loads an alert only if its is_active flag is set when the
\* alerts are selected, and creates notifications and writes last_triggered_at only
\* for alerts it loaded; so an alert the user has switched off gets neither from an
\* invocation that selects its alerts after that, whatever requests interleave with
\* the invocation.
OnlyActiveRulesFire ==
    [][\A i \in InvIds : \A a \in AlertIds :
          /\ (~HasLoaded(inv[i], a) /\ HasLoaded(inv'[i], a)) => alerts[a].is_active
          /\ FiresOrStamps(a) => \E j \in InvIds : HasLoaded(inv[j], a)
          /\ (inv[i].pc \notin {"idle", "load"} /\ inv'[i].pc # "idle"
                /\ ~HasLoaded(inv[i], a))
               => /\ ~HasLoaded(inv'[i], a)
                  /\ inv'[i].outcome[a] = "none"]_vars

\* a2 is switched off; the invocation that follows loads a1 alone and computes an
\* mNAV below a2's threshold, and a2 has no notification and no last_triggered_at
OnlyActiveRulesFireWitness ==
    /\ ~alerts["a2"].is_active
    /\ alerts["a2"].company_id = "c1"
    /\ alerts["a2"].alert_type = "below"
    /\ inv[1].pc = "done"
    /\ HasLoaded(inv[1], "a1")
    /\ ~HasLoaded(inv[1], "a2")
    /\ inv[1].groupMnav["c1"] = Num(1, 2)
    /\ JsLt(inv[1].groupMnav["c1"], alerts["a2"].threshold_value)
    /\ alerts["a2"].last_triggered_at = Null
    /\ \A n \in notifications : n.alert_id # "a2"

(* ---- MetricSeriesFiller: rows without a disclosed value -------------------- *)
\* the disclosure has a value for one of the five fields
CarriesField(m) ==
    \E field \in {"eth_holdings", "eth_concentration", "avg_buy_price", "usd_holdings",
                  "staking_rewards"} :
        m[field] # Undefined /\ m[field] # Null

\* C21: no row is emitted for a day unless a disclosure on or before that day has a
\* value for one of the five fields, whatever prices are known.
NoRowBeforeFirstDisclosure ==
    Filled =>
        \A k \in 1..Len(fillRows) :
            \E i \in 1..Len(fillMetrics) :
                fillMetrics[i].date <= fillRows[k].date /\ CarriesField(fillMetrics[i])

(* ---- MetricSeriesFiller: the five fields, each on its own ------------------ *)
\* the values of a field that the disclosures of the latest day on or before the
\* given one with a non-zero value of it carry; 0 without such a day
ResolvedValues(field, day) ==
    IF Carrying(field, day) = {} THEN {Whole(0)}
    ELSE {fillMetrics[i][field] :
            i \in {c \in Carrying(field, day) :
                     \A j \in Carrying(field, day) :
                         fillMetrics[j].date <= fillMetrics[c].date}}

OneDisclosurePerDay ==
    \A i, j \in 1..Len(fillMetrics) : fillMetrics[i].date = fillMetrics[j].date => i = j

\* the disclosures on or before a day whose cash figure is present (0 included)
CashDisclosed(day) ==
    {i \in 1..Len(fillMetrics) :
        /\ fillMetrics[i].date <= day
        /\ fillMetrics[i].usd_holdings # Undefined
        /\ fillMetrics[i].usd_holdings # Null}

EarlierWithShares(k) == {j \in 1..(k - 1) : Truthy(fillRows[j].sharesOutstanding)}

\* C23: every emitted row's issuedAtmShares is its sharesOutstanding minus that of
\* the most recent row emitted before it whose sharesOutstanding is a number
\* other than 0, and its own sharesOutstanding when there is no such row; only
\* emitted rows are compared.
IssuedDeltaRule ==
    Filled =>
        \A k \in 1..Len(fillRows) :
            LET earlier == EarlierWithShares(k)
                last == CHOOSE j \in earlier : \A i \in earlier : i <= j
            IN  fillRows[k].issuedAtmShares =
                    IF earlier = {} THEN fillRows[k].sharesOutstanding
                    ELSE JsSub(fillRows[k].sharesOutstanding, fillRows[last].sharesOutstanding)

\* days skipped, then a first row that reports its own shares and a later row that
\* reports a difference other than 0
IssuedDeltaWitness ==
    /\ Filled
    /\ Len(fillRows) >= 3
    /\ Truthy(fillRows[1].sharesOutstanding)
    /\ fillRows[1].issuedAtmShares = fillRows[1].sharesOutstanding
    /\ fillRows[1].date > StartDay
    /\ \E k \in 2..Len(fillRows) :
           /\ fillRows[k].issuedAtmShares.k = "num"
           /\ fillRows[k].issuedAtmShares.n # 0
           /\ fillRows[k].issuedAtmShares # fillRows[k].sharesOutstanding

(* ---- MetricSeriesFiller: the days of the series --------------------------- *)
\* C24: every emitted row is dated on or after the start date and on or before
\* the day of the call, at whatever time of that day the call is made.
DatesWithinRange ==
    Filled =>
        \A k \in 1..Len(fillRows) :
            StartDay <= fillRows[k].date /\ fillRows[k].date <= fillNow.day

\* C25: the rows are emitted in strictly ascending date order, so at most one for
\* a day, also when the disclosures or the prices are unsorted or have several
\* rows for a day.
RowsStrictlyAscending ==
    Filled =>
        \A j, k \in 1..Len(fillRows) : j < k => fillRows[j].date < fillRows[k].date

\* rows out of order or a day given twice
Disordered(rows) ==
    \E i, j \in 1..Len(rows) : i < j /\ rows[j].date <= rows[i].date

\* disclosures and prices both disordered, and several rows emitted
DisorderedInputWitness ==
    /\ Filled
    /\ Disordered(fillMetrics)
    /\ Disordered(fillPrices)
    /\ Len(fillRows) >= 2

(* ---- NavCalculator: what the monitor is handed ---------------------------- *)
\* C26: whenever calculateCurrentMnav returns a value other than null, the value
\* is a finite number above 0, whatever the latest row of the series (a row whose
\* shares were derived from a concentration of 0 and negative cash included) and
\* the live prices are.
MnavFinitePositive ==
    (navPc = "mnav" /\ mnavResult # Null) =>
        IsFinite(mnavResult) /\ JsGt(mnavResult, Whole(0))

(* ---- the background price update ------------------------------------------ *)
\* C27: at most one processTickerUpdates call is in progress at any time, and
\* isUpdateRunning is true exactly while one is, so that a request arriving
\* during a run is answered 409 and the flag is false again when the run ends.
SingleBackgroundUpdate ==
    /\ Cardinality(RunningUpdates) <= 1
    /\ isUpdateRunning <=> RunningUpdates # {}

(* ---- the Finnhub price feed ------------------------------------------------ *)
\* C28: two upserts of a ticker's price are at least DEBOUNCE_MS apart, and every
\* upsert carries the price of the last trade received for the ticker.
DebouncedWrites ==
    \A t \in PriceTickers :
        /\ \A i, j \in 1..Len(upserts[t]) :
               i < j => upserts[t][j].at - upserts[t][i].at >= DEBOUNCE_MS
        /\ upserts[t] # <<>> /\ pendingPrices[t] = Undefined
               => upserts[t][Len(upserts[t])].price = received[t]

(* ---- the websocket services ------------------------------------------------ *)
\* C29: once a service has been stopped it has no connection that is being opened
\* or is open; the reconnect attempts in a row never
\* exceed MAX_RECONNECT_ATTEMPTS, and are 0 while a connection is open.
StopIsFinal ==
    \A s \in WsServices :
        /\ stopped[s] => readyState[s] \in {"none", "closing"}
        /\ reconnectAttempts[s] <= MAX_RECONNECT_ATTEMPTS
        /\ readyState[s] = "open" => reconnectAttempts[s] = 0

(* ---- the alert quota ------------------------------------------------------- *)
\* C30: the user never has more than 5 active rules for the company, whatever
\* POST and PATCH requests are served and however they overlap.
AlertQuota == Cardinality(ActiveRules) <= MAX_ALERTS_PER_COMPANY

=============================================================================
